---------------------------- MODULE Spec2Model ----------------------------
(***************************************************************************)
(* DetectaBB backend: OCR text -> parse_dados_boleto ->                    *)
(* validar_boleto_febraban -> preparar_features -> predizer_fraude ->      *)
(* fusion (processar_boleto) -> gerar_explicacao_humanizada.               *)
(*                                                                         *)
(* Conventions of the model.                                               *)
(*  - A Python str is a sequence of one-character strings.                 *)
(*  - An optional value is << >> (None) or <<v>>.                           *)
(*  - An error message is a sequence of its words (accents dropped,        *)
(*    punctuation dropped, interpolated values kept as words); substring   *)
(*    tests of the code become contiguous-subsequence tests over words.    *)
(*  - A float amount is an exact decimal [mant, casas] = mant / 10^casas.  *)
(*  - A probability is an integer number of thousandths.                   *)
(***************************************************************************)
EXTENDS Integers, Sequences, FiniteSets, TLC

VARIABLES
    \* ---- check-digit harness (validator.py called on digit strings)
    entrada,      \* [tipo, texto]: the string handed to a sub-validator
    saida,        \* <<its result {valido, erros}>>, or None before the call
    \* ---- validator harness (validar_boleto_febraban on a field set)
    campos,       \* the dict `dados` handed to validar_boleto_febraban
    relogio,      \* datetime.now() as seen by validar_vencimento
    resultado,    \* <<its result>>, or None before the call
    \* ---- processar_boleto, one pipeline invocation
    pc,           \* position in processar_boleto
    texto,        \* OCR text
    classificador,\* <<what modelo.predict / predict_proba answer>>
    dados,        \* parse_dados_boleto's result
    validacao,    \* validar_boleto_febraban's result
    features,     \* preparar_features' result
    predicao_ml,  \* predizer_fraude's result
    fusao,        \* the locals is_fraudulento and metodos of step 5
    fraudeAnalise,\* the fraudeAnalise document saved with status completed
    explicacao,   \* gerar_explicacao_humanizada's result
    excecao,      \* the exception that left the try block, or None
    \* ---- carregar_modelo called by the job threads of one worker process
    _modelo_cache,\* the module global: None or <<the unpickled object>>
    cargas,       \* how many times pickle.load has run
    atribuicoes,  \* how many times _modelo_cache has been assigned
    pcT,          \* each job thread's position in carregar_modelo
    carregado,    \* each thread's value of pickle.load(f) before it is stored
    retorno,      \* what carregar_modelo returned to each thread
    \* ---- anonymous access of one IP address (api/main.py, auth/routes.py)
    acessos_anonimos, \* the documents of db.acessos_anonimos for the address
    utcnow,       \* the UTC day datetime.utcnow() falls on
    pedidos,      \* each anonymous request's position, locals and answer
    quick,        \* the /auth/quick-access handler's position and locals
    \* ---- the job queue and the worker (api/main.py, worker/worker.py, tasks.py)
    fila,         \* the Redis list 'boletos:jobs': analise_ids, head first
    analises,     \* db.analises: each id's document {status, error}, or None
    laco,         \* each worker's run loop: the job it popped and has not started
    threads       \* each job's thread: position in processar_boleto, times taken

vars == <<entrada, saida, campos, relogio, resultado, pc, texto, classificador,
          dados, validacao, features, predicao_ml, fusao, fraudeAnalise,
          explicacao, excecao, _modelo_cache, cargas, atribuicoes, pcT,
          carregado, retorno, acessos_anonimos, utcnow, pedidos, quick,
          fila, analises, laco, threads>>

dvVars == <<entrada, saida>>
valVars == <<campos, relogio, resultado>>
jobVars == <<pc, texto, classificador, dados, validacao, features, predicao_ml,
             fusao, fraudeAnalise, explicacao, excecao>>
cacheVars == <<_modelo_cache, cargas, atribuicoes, pcT, carregado, retorno>>
apiVars == <<acessos_anonimos, utcnow, pedidos, quick>>
filaVars == <<fila, analises, laco, threads>>
extVars == <<apiVars, filaVars>>

\* Python's None and a present value: an optional value is a sequence of length
\* at most one, so that None compares with values of every type.
None == << >>
Some(v) == <<v>>
Val(o) == o[1]

-----------------------------------------------------------------------------
(* Characters and strings                                                  *)

DigitChars == <<"0", "1", "2", "3", "4", "5", "6", "7", "8", "9">>

IsDigit(c) == c \in {"0", "1", "2", "3", "4", "5", "6", "7", "8", "9"}

\* int(c) for a digit character
DigitVal(c) ==
    CASE c = "0" -> 0 [] c = "1" -> 1 [] c = "2" -> 2 [] c = "3" -> 3
      [] c = "4" -> 4 [] c = "5" -> 5 [] c = "6" -> 6 [] c = "7" -> 7
      [] c = "8" -> 8 [] c = "9" -> 9

\* the str of a sequence of digit values
Chars(ds) == [i \in 1..Len(ds) |-> DigitChars[ds[i] + 1]]

\* s[a:b] of Python (0-based, end exclusive, clamped)
Slice(s, a, b) ==
    LET hi == IF b > Len(s) THEN Len(s) ELSE b
    IN  IF a >= hi THEN << >> ELSE SubSeq(s, a + 1, hi)

\* re.sub(r'[^\d]', '', s)
RECURSIVE SoDigitos(_)
SoDigitos(s) ==
    IF s = << >> THEN << >>
    ELSE IF IsDigit(Head(s)) THEN <<Head(s)>> \o SoDigitos(Tail(s))
         ELSE SoDigitos(Tail(s))

\* int(s) for a non-empty string of digits
RECURSIVE IntDe(_)
IntDe(s) ==
    IF s = << >> THEN 0
    ELSE 10 * IntDe(SubSeq(s, 1, Len(s) - 1)) + DigitVal(s[Len(s)])

\* str(n) for n >= 0
RECURSIVE StrDe(_)
StrDe(n) ==
    IF n < 10 THEN <<DigitChars[n + 1]>>
    ELSE StrDe(n \div 10) \o <<DigitChars[(n % 10) + 1]>>

-----------------------------------------------------------------------------
(* ml/validator.py: check digits                                           *)

\* The loop of calcular_dv_modulo10 with i the 1-based index still to process.
RECURSIVE Modulo10Soma(_, _, _, _)
Modulo10Soma(sequencia, i, soma, multiplicador) ==
    IF i = 0 THEN soma
    ELSE LET produto == DigitVal(sequencia[i]) * multiplicador
             res == IF produto > 9 THEN (produto \div 10) + (produto % 10)
                    ELSE produto
         IN  Modulo10Soma(sequencia, i - 1, soma + res,
                          IF multiplicador = 2 THEN 1 ELSE 2)

\* A slip in the zero case: 10 - resto without the resto == 0 branch.
calcular_dv_modulo10_SemZero(sequencia) ==
    StrDe(10 - (Modulo10Soma(sequencia, Len(sequencia), 0, 2) % 10))

calcular_dv_modulo10(sequencia) ==
    LET resto == Modulo10Soma(sequencia, Len(sequencia), 0, 2) % 10
        dv == IF resto = 0 THEN 0 ELSE 10 - resto
    IN  StrDe(dv)

\* The loop of calcular_dv_modulo11.
RECURSIVE Modulo11Soma(_, _, _, _)
Modulo11Soma(sequencia, i, soma, multiplicador) ==
    IF i = 0 THEN soma
    ELSE Modulo11Soma(sequencia, i - 1,
                      soma + DigitVal(sequencia[i]) * multiplicador,
                      IF multiplicador + 1 > 9 THEN 2 ELSE multiplicador + 1)

\* A slip in the special rule: dv 10 and 11 collapse to 0 instead of 1.
calcular_dv_modulo11_ColapsaZero(sequencia) ==
    LET dv == 11 - (Modulo11Soma(sequencia, Len(sequencia), 0, 2) % 11)
    IN  StrDe(IF dv = 0 \/ dv = 10 \/ dv = 11 THEN 0 ELSE dv)

\* The rule of other modulo-11 schemes: resto 0 and 1 give the digit 0.
calcular_dv_modulo11_RestoBaixoZero(sequencia) ==
    LET resto == Modulo11Soma(sequencia, Len(sequencia), 0, 2) % 11
    IN  StrDe(IF resto < 2 THEN 0 ELSE 11 - resto)

calcular_dv_modulo11(sequencia) ==
    LET resto == Modulo11Soma(sequencia, Len(sequencia), 0, 2) % 11
        dv == 11 - resto
    IN  StrDe(IF dv = 0 \/ dv = 10 \/ dv = 11 THEN 1 ELSE dv)

-----------------------------------------------------------------------------
(* ml/validator.py: sub-validators.  A result is [valido, erros].          *)

\* A slip in the verdict: valido is not derived from erros.
Res_SempreValido(erros) == [valido |-> TRUE, erros |-> erros]

\* return {'valido': len(erros) == 0, 'erros': erros}
Res(erros) == [valido |-> Len(erros) = 0, erros |-> erros]

\* An error message: the words of its fixed text, in order, and the values
\* interpolated into it, each as the str the f-string renders.
Msg(palavras, args) == [p |-> palavras, a |-> args]

MsgDV(k, esperado, encontrado) ==
    Msg(<<k, "invalido", "esperado", "encontrado">>, <<esperado, encontrado>>)

MsgTamanhoLinha(n) ==
    Msg(<<"Linha", "digitavel", "deve", "ter", "47", "digitos", "tem">>, <<StrDe(n)>>)

DVErro(k, informado, calculado) ==
    IF informado /= calculado THEN <<MsgDV(k, calculado, informado)>> ELSE << >>

\* A dependent check: the blocks after the first mismatching one are skipped.
validar_linha_digitavel_PrimeiroErro(linha) ==
    LET digitos == SoDigitos(linha)
    IN  IF Len(digitos) /= 47
        THEN [valido |-> FALSE, erros |-> <<MsgTamanhoLinha(Len(digitos))>>]
        ELSE LET e1 == DVErro("DV1", <<digitos[10]>>,
                              calcular_dv_modulo10(Slice(digitos, 0, 9)))
                 e2 == DVErro("DV2", <<digitos[21]>>,
                              calcular_dv_modulo10(Slice(digitos, 10, 20)))
                 e3 == DVErro("DV3", <<digitos[32]>>,
                              calcular_dv_modulo10(Slice(digitos, 21, 31)))
             IN  Res(IF e1 /= << >> THEN e1 ELSE IF e2 /= << >> THEN e2 ELSE e3)

validar_linha_digitavel(linha) ==
    LET digitos == SoDigitos(linha)
    IN  IF Len(digitos) /= 47
        THEN [valido |-> FALSE, erros |-> <<MsgTamanhoLinha(Len(digitos))>>]
        ELSE LET campo1 == Slice(digitos, 0, 10)
                 campo2 == Slice(digitos, 10, 21)
                 campo3 == Slice(digitos, 21, 32)
                 e1 == DVErro("DV1", <<campo1[10]>>,
                              calcular_dv_modulo10(Slice(campo1, 0, 9)))
                 e2 == DVErro("DV2", <<campo2[11]>>,
                              calcular_dv_modulo10(Slice(campo2, 0, 10)))
                 e3 == DVErro("DV3", <<campo3[11]>>,
                              calcular_dv_modulo10(Slice(campo3, 0, 10)))
             IN  Res(e1 \o e2 \o e3)

MsgTamanhoBarras(n) ==
    Msg(<<"Codigo", "de", "barras", "deve", "ter", "44", "digitos", "tem">>, <<StrDe(n)>>)

MsgDVBarras(esperado, encontrado) ==
    Msg(<<"DV", "do", "codigo", "de", "barras", "invalido",
          "esperado", "encontrado">>, <<esperado, encontrado>>)

validar_codigo_barras(codigo) ==
    LET digitos == SoDigitos(codigo)
    IN  IF Len(digitos) /= 44
        THEN [valido |-> FALSE, erros |-> <<MsgTamanhoBarras(Len(digitos))>>]
        ELSE LET dv_informado == <<digitos[5]>>
                 codigo_sem_dv == Slice(digitos, 0, 4) \o Slice(digitos, 5, 44)
                 dv_calculado == calcular_dv_modulo11(codigo_sem_dv)
             IN  Res(IF dv_informado /= dv_calculado
                     THEN <<MsgDVBarras(dv_calculado, dv_informado)>>
                     ELSE << >>)

\* 10^n
RECURSIVE Pot10(_)
Pot10(n) == IF n = 0 THEN 1 ELSE 10 * Pot10(n - 1)

\* valor > cent / 100, for the exact decimal valor = mant / 10^casas
AcimaDe(valor, cent) ==
    IF valor.casas <= 2
    THEN valor.mant * Pot10(2 - valor.casas) > cent
    ELSE LET p == Pot10(valor.casas - 2)
         IN  (valor.mant \div p) > cent
             \/ ((valor.mant \div p) = cent /\ (valor.mant % p) > 0)

MsgValorZero == Msg(<<"Valor", "deve", "ser", "maior", "que", "zero">>, << >>)
MsgValorMaximo ==
    Msg(<<"Valor", "excede", "limite", "maximo", "R$", "9.999.999,99">>, << >>)

\* 9999999.99 in centavos
LimiteValorCentavos == 999999999

validar_valor(valor) ==
    Res((IF valor.mant <= 0 THEN <<MsgValorZero>> ELSE << >>)
        \o (IF AcimaDe(valor, LimiteValorCentavos)
            THEN <<MsgValorMaximo>> ELSE << >>))

\* ---- dates: datetime.strptime(s, '%d/%m/%Y') and timedelta.days

Bissexto(y) == (y % 4 = 0 /\ y % 100 /= 0) \/ y % 400 = 0

DiasNoMes(y, m) ==
    IF m = 2 THEN (IF Bissexto(y) THEN 29 ELSE 28)
    ELSE IF m \in {4, 6, 9, 11} THEN 30 ELSE 31

\* date.toordinal(): days since 0001-01-01 = 1
DiasAntesDoAno(y) ==
    LET a == y - 1 IN a * 365 + (a \div 4) - (a \div 100) + (a \div 400)

RECURSIVE DiasAntesDoMes(_, _)
DiasAntesDoMes(y, m) ==
    IF m = 1 THEN 0 ELSE DiasAntesDoMes(y, m - 1) + DiasNoMes(y, m - 1)

Ordinal(y, m, d) == DiasAntesDoAno(y) + DiasAntesDoMes(y, m) + d

TodosDigitos(s) == \A i \in 1..Len(s) : IsDigit(s[i])

\* strptime(s, '%d/%m/%Y') on a string of the shape the parser's date patterns
\* capture (two digits, '/', two digits, '/', four digits), or any other string:
\* [ok, y, m, d, motivo].
StrptimeDMY(s) ==
    LET forma == /\ Len(s) = 10
                 /\ s[3] = "/" /\ s[6] = "/"
                 /\ TodosDigitos(Slice(s, 0, 2))
                 /\ TodosDigitos(Slice(s, 3, 5))
                 /\ TodosDigitos(Slice(s, 6, 10))
        d == IntDe(Slice(s, 0, 2))
        m == IntDe(Slice(s, 3, 5))
        y == IntDe(Slice(s, 6, 10))
    IN  IF ~forma \/ d \notin 1..31 \/ m \notin 1..12
        THEN [ok |-> FALSE, y |-> 0, m |-> 0, d |-> 0,
              motivo |-> <<"time", "data", "does", "not", "match", "format">>]
        ELSE IF y < 1
        THEN [ok |-> FALSE, y |-> 0, m |-> 0, d |-> 0,
              motivo |-> <<"year", "0", "is", "out", "of", "range">>]
        ELSE IF d > DiasNoMes(y, m)
        THEN [ok |-> FALSE, y |-> 0, m |-> 0, d |-> 0,
              motivo |-> <<"day", "is", "out", "of", "range", "for", "month">>]
        ELSE [ok |-> TRUE, y |-> y, m |-> m, d |-> d, motivo |-> << >>]

MsgVencAntigo(s) ==
    Msg(<<"Boleto", "com", "vencimento", "muito", "antigo">>, <<s>>)
MsgVencDistante(s) ==
    Msg(<<"Boleto", "com", "vencimento", "muito", "distante">>, <<s>>)
MsgVencInvalida(motivo) ==
    Msg(<<"Data", "de", "vencimento", "invalida">> \o motivo, << >>)

\* A window counted between calendar dates: the time of day of now is dropped.
validar_vencimento_SemFracao(vencimento_str, hoje) ==
    LET t == StrptimeDMY(vencimento_str)
    IN  IF ~t.ok
        THEN [valido |-> FALSE, erros |-> <<MsgVencInvalida(t.motivo)>>]
        ELSE LET vencimento == Ordinal(t.y, t.m, t.d)
             IN  Res((IF hoje.dia - vencimento > 5 * 365
                      THEN <<MsgVencAntigo(vencimento_str)>> ELSE << >>)
                     \o (IF vencimento - hoje.dia > 2 * 365
                         THEN <<MsgVencDistante(vencimento_str)>> ELSE << >>))

\* hoje is [dia, fracao]: the ordinal of today's date and whether the time of
\* day is after midnight.  (hoje - vencimento).days and (vencimento - hoje).days
\* are floors of the difference.
validar_vencimento(vencimento_str, hoje) ==
    LET t == StrptimeDMY(vencimento_str)
    IN  IF ~t.ok
        THEN [valido |-> FALSE, erros |-> <<MsgVencInvalida(t.motivo)>>]
        ELSE LET vencimento == Ordinal(t.y, t.m, t.d)
                 atras == hoje.dia - vencimento
                 adiante == vencimento - hoje.dia - (IF hoje.fracao THEN 1 ELSE 0)
             IN  Res((IF atras > 5 * 365
                      THEN <<MsgVencAntigo(vencimento_str)>> ELSE << >>)
                     \o (IF adiante > 2 * 365
                         THEN <<MsgVencDistante(vencimento_str)>> ELSE << >>))

\* ---- CNPJ

MsgCnpjTamanho == Msg(<<"CNPJ", "deve", "ter", "14", "digitos">>, << >>)
MsgCnpjRepetido == Msg(<<"CNPJ", "invalido", "sequencia", "repetida">>, << >>)
MsgCnpjDV1 ==
    Msg(<<"Primeiro", "digito", "verificador", "do", "CNPJ", "invalido">>, << >>)
MsgCnpjDV2 ==
    Msg(<<"Segundo", "digito", "verificador", "do", "CNPJ", "invalido">>, << >>)

PesoCnpj1 == <<5, 4, 3, 2, 9, 8, 7, 6, 5, 4, 3, 2>>
PesoCnpj2 == <<6, 5, 4, 3, 2, 9, 8, 7, 6, 5, 4, 3, 2>>

\* soma += int(cnpj_digitos[i]) * peso[i] for i in range(n)
RECURSIVE SomaPonderada(_, _, _)
SomaPonderada(digitos, peso, n) ==
    IF n = 0 THEN 0
    ELSE SomaPonderada(digitos, peso, n - 1) + DigitVal(digitos[n]) * peso[n]

\* A remainder of 2 taken for a zero digit as well.
DVCnpj_RestoAteDois(soma) ==
    LET resto == soma % 11 IN IF resto <= 2 THEN 0 ELSE 11 - resto

\* dv = 0 if resto < 2 else 11 - resto
DVCnpj(soma) == LET resto == soma % 11 IN IF resto < 2 THEN 0 ELSE 11 - resto

\* A validation that goes to the check digits without the repeated-sequence
\* test.
validar_cnpj_SemRepetida(cnpj) ==
    LET cnpj_digitos == SoDigitos(cnpj)
    IN  IF Len(cnpj_digitos) /= 14
        THEN [valido |-> FALSE, erros |-> <<MsgCnpjTamanho>>]
        ELSE LET dv1 == DVCnpj(SomaPonderada(cnpj_digitos, PesoCnpj1, 12))
                 dv2 == DVCnpj(SomaPonderada(cnpj_digitos, PesoCnpj2, 13))
             IN  Res((IF DigitVal(cnpj_digitos[13]) /= dv1
                      THEN <<MsgCnpjDV1>> ELSE << >>)
                     \o (IF DigitVal(cnpj_digitos[14]) /= dv2
                         THEN <<MsgCnpjDV2>> ELSE << >>))

validar_cnpj(cnpj) ==
    LET cnpj_digitos == SoDigitos(cnpj)
    IN  IF Len(cnpj_digitos) /= 14
        THEN [valido |-> FALSE, erros |-> <<MsgCnpjTamanho>>]
        ELSE IF \A i \in 1..14 : cnpj_digitos[i] = cnpj_digitos[1]
        THEN [valido |-> FALSE, erros |-> <<MsgCnpjRepetido>>]
        ELSE LET dv1 == DVCnpj(SomaPonderada(cnpj_digitos, PesoCnpj1, 12))
                 dv2 == DVCnpj(SomaPonderada(cnpj_digitos, PesoCnpj2, 13))
             IN  Res((IF DigitVal(cnpj_digitos[13]) /= dv1
                      THEN <<MsgCnpjDV1>> ELSE << >>)
                     \o (IF DigitVal(cnpj_digitos[14]) /= dv2
                         THEN <<MsgCnpjDV2>> ELSE << >>))

\* ---- bank code

bancos_validos ==
    { <<"0", "0", "1">>, <<"0", "3", "3">>, <<"1", "0", "4">>, <<"2", "3", "7">>,
      <<"3", "4", "1">>, <<"7", "4", "8">>, <<"7", "5", "6">>, <<"0", "7", "7">>,
      <<"2", "6", "0">>, <<"2", "9", "0">>, <<"4", "0", "3">>, <<"4", "2", "2">>,
      <<"1", "4", "0">>, <<"1", "9", "7">> }

MsgBancoDesconhecido(codigo) ==
    Msg(<<"Codigo", "de", "banco", "desconhecido">>, <<codigo>>)

validar_codigo_banco(codigo) ==
    Res(IF codigo \notin bancos_validos
        THEN <<MsgBancoDesconhecido(codigo)>> ELSE << >>)

-----------------------------------------------------------------------------
(* ml/validator.py: validar_boleto_febraban                                *)

\* bool(x) of dados.get(key): None and '' are falsy, a float is falsy when 0
TruthyStr(o) == o /= None /\ Val(o) /= << >>
TruthyValor(o) == o /= None /\ Val(o).mant /= 0

MsgLinhaNaoEncontrada == Msg(<<"Linha", "digitavel", "nao", "encontrada">>, << >>)
MsgValorNaoEncontrado == Msg(<<"Valor", "nao", "encontrado">>, << >>)
MsgVencNaoEncontrado == Msg(<<"Vencimento", "nao", "encontrado">>, << >>)
MsgBancoNaoEncontrado ==
    Msg(<<"Codigo", "do", "banco", "nao", "encontrado">>, << >>)

\* A slip in the accumulation: a failing sub-check overwrites erros.
Extende_Substitui(erros, r) == IF ~r.valido THEN r.erros ELSE erros

\* if not resultado['valido']: erros.extend(resultado['erros'])
Extende(erros, r) == IF ~r.valido THEN erros \o r.erros ELSE erros

validar_boleto_febraban(d, hoje) ==
    LET \* 1. VALIDAR LINHA DIGITAVEL
        temLinha == TruthyStr(d.linha_digitavel)
        rLinha == validar_linha_digitavel(Val(d.linha_digitavel))
        e1 == IF temLinha THEN Extende(<< >>, rLinha)
              ELSE <<MsgLinhaNaoEncontrada>>
        \* 2. VALIDAR CODIGO DE BARRAS
        temBarras == TruthyStr(d.codigo_barras)
        rBarras == validar_codigo_barras(Val(d.codigo_barras))
        e2 == IF temBarras THEN Extende(e1, rBarras) ELSE e1
        \* 3. VALIDAR VALOR
        temValor == TruthyValor(d.valor)
        rValor == validar_valor(Val(d.valor))
        e3 == IF temValor THEN Extende(e2, rValor)
              ELSE Append(e2, MsgValorNaoEncontrado)
        \* 4. VALIDAR VENCIMENTO
        temVenc == TruthyStr(d.vencimento)
        rVenc == validar_vencimento(Val(d.vencimento), hoje)
        e4 == IF temVenc THEN Extende(e3, rVenc)
              ELSE Append(e3, MsgVencNaoEncontrado)
        \* 5. VALIDAR CNPJ
        temCnpj == TruthyStr(d.beneficiario_cnpj)
        rCnpj == validar_cnpj(Val(d.beneficiario_cnpj))
        e5 == IF temCnpj THEN Extende(e4, rCnpj) ELSE e4
        \* 6. VALIDAR BANCO
        temBanco == TruthyStr(d.codigo_banco)
        rBanco == validar_codigo_banco(Val(d.codigo_banco))
        e6 == IF temBanco THEN Extende(e5, rBanco)
              ELSE Append(e5, MsgBancoNaoEncontrado)
    IN  [valido |-> Len(e6) = 0,
         erros |-> e6,
         detalhes |->
           [linha_digitavel |-> IF temLinha THEN Some(rLinha) ELSE None,
            codigo_barras |-> IF temBarras THEN Some(rBarras) ELSE None,
            valor |-> IF temValor THEN Some(rValor) ELSE None,
            vencimento |-> IF temVenc THEN Some(rVenc) ELSE None,
            cnpj |-> IF temCnpj THEN Some(rCnpj) ELSE None,
            banco |-> IF temBanco THEN Some(rBanco) ELSE None]]

-----------------------------------------------------------------------------
(* Check-digit harness: validar_linha_digitavel and validar_codigo_barras  *)
(* applied to 47- and 44-digit strings.                                    *)

MaxSemente == 5

\* Digit j of the digit string grown from seed s.
Dig(s, j) == (s * s + (s + 3) * j + ((j * j) \div 7) + (j \div 5) * s) % 10

\* AAAAA.AAAAA BBBBB.BBBBBB CCCCC.CCCCCC D EEEEEEEEEEEEEE (parser.py:110)
FormatarLinha(d) ==
    Slice(d, 0, 5) \o <<".">> \o Slice(d, 5, 10) \o <<" ">>
    \o Slice(d, 10, 15) \o <<".">> \o Slice(d, 15, 21) \o <<" ">>
    \o Slice(d, 21, 26) \o <<".">> \o Slice(d, 26, 32) \o <<" ">>
    \o <<d[33]>> \o <<" ">> \o Slice(d, 33, 47)

\* 47 digits from a seed, with the digits at indices 9, 20 and 31 given.
LinhaSemente(s, dv1, dv2, dv3) ==
    Chars([j \in 1..47 |-> IF j = 10 THEN dv1 ELSE IF j = 21 THEN dv2
                           ELSE IF j = 32 THEN dv3 ELSE Dig(s, j)])

\* 44 digits from a seed, with the digit at index 4 and the last digit given.
BarrasSemente(s, dv, u) ==
    Chars([j \in 1..44 |-> IF j = 5 THEN dv ELSE IF j = 44 THEN u
                           ELSE Dig(s + 1, j + 2)])

EntradasDV ==
    { [tipo |-> "linha", digitos |-> LinhaSemente(s, a, b, c),
       texto |-> IF f THEN FormatarLinha(LinhaSemente(s, a, b, c))
                 ELSE LinhaSemente(s, a, b, c)] :
        s \in 0..MaxSemente, a \in 0..9, b \in 0..9, c \in 0..9, f \in BOOLEAN }
    \cup
    { [tipo |-> "barras", digitos |-> BarrasSemente(s, a, u),
       texto |-> BarrasSemente(s, a, u)] :
        s \in 0..MaxSemente, a \in 0..9, u \in 0..9 }

ValNulo == campos = None /\ relogio = None /\ resultado = None

JobNulo ==
    /\ pc = "fora" /\ texto = None /\ classificador = None /\ dados = None
    /\ validacao = None /\ features = None /\ predicao_ml = None
    /\ fusao = None /\ fraudeAnalise = None /\ explicacao = None
    /\ excecao = None

ApiNulo ==
    acessos_anonimos = None /\ utcnow = None /\ pedidos = None /\ quick = None

FilaNulo == fila = None /\ analises = None /\ laco = None /\ threads = None

ExtNulo == ApiNulo /\ FilaNulo

CacheNulo ==
    /\ _modelo_cache = None /\ cargas = 0 /\ atribuicoes = 0
    /\ pcT = None /\ carregado = None /\ retorno = None

InitDV ==
    entrada \in EntradasDV /\ saida = None /\ ValNulo /\ JobNulo /\ CacheNulo /\ ExtNulo

ValidarLinha ==
    /\ entrada.tipo = "linha" /\ saida = None
    /\ saida' = Some(validar_linha_digitavel(entrada.texto))
    /\ UNCHANGED <<extVars, entrada, valVars, jobVars, cacheVars>>

ValidarBarras ==
    /\ entrada.tipo = "barras" /\ saida = None
    /\ saida' = Some(validar_codigo_barras(entrada.texto))
    /\ UNCHANGED <<extVars, entrada, valVars, jobVars, cacheVars>>

NextDV == ValidarLinha \/ ValidarBarras

SpecDV == InitDV /\ [][NextDV]_vars

-----------------------------------------------------------------------------
(* Claims on the check digits                                              *)

\* Modulo 10 as the specification words it: right to left, multipliers
\* 2,1,2,1,...; a product above 9 is replaced by the sum of its digits.
RECURSIVE SomaLuhn(_, _)
SomaLuhn(p, i) ==
    IF i > Len(p) THEN 0
    ELSE LET w == IF (Len(p) - i) % 2 = 0 THEN 2 ELSE 1
             c == DigitVal(p[i]) * w
         IN  (IF c > 9 THEN c - 9 ELSE c) + SomaLuhn(p, i + 1)

DVLuhn(p) == LET r == SomaLuhn(p, 1) % 10 IN IF r = 0 THEN 0 ELSE 10 - r

\* The three blocks of a 47-digit string: <<prefix, stored check digit>>.
BlocosDaLinha(d) ==
    << <<Slice(d, 0, 9), d[10]>>, <<Slice(d, 10, 20), d[21]>>,
       <<Slice(d, 21, 31), d[32]>> >>

DVsCorretos(d) ==
    \A k \in 1..3 :
        BlocosDaLinha(d)[k][2] = DigitChars[DVLuhn(BlocosDaLinha(d)[k][1]) + 1]

\* C9: a 47-digit linha digitavel whose three block check digits (indices 9,
\* 20, 31) are the modulo-10 digits of their 9- or 10-digit prefixes is
\* validated with no DV error, and every computed check digit is one digit
\* 0..9.
C9_Modulo10RoundTrip ==
    (saida /= None /\ entrada.tipo = "linha") =>
        /\ \A k \in 1..3 :
             LET dv == calcular_dv_modulo10(BlocosDaLinha(entrada.digitos)[k][1])
             IN  Len(dv) = 1 /\ IsDigit(dv[1])
        /\ DVsCorretos(entrada.digitos) =>
             (Val(saida).valido /\ Val(saida).erros = << >>)

\* A validated linha with correct check digits, one of them the digit 0.
C9_Witness ==
    /\ saida /= None /\ entrada.tipo = "linha"
    /\ DVsCorretos(entrada.digitos)
    /\ \E k \in 1..3 : BlocosDaLinha(entrada.digitos)[k][2] = "0"
    /\ entrada.texto /= entrada.digitos
    /\ Val(saida).valido

\* Modulo 11 as the specification words it: multipliers cycling 2..9 from the
\* right, dv = 11 - sum % 11, and 0, 10, 11 collapsed to 1.
RECURSIVE SomaMod11(_, _)
SomaMod11(p, i) ==
    IF i > Len(p) THEN 0
    ELSE DigitVal(p[i]) * (2 + ((Len(p) - i) % 8)) + SomaMod11(p, i + 1)

DVMod11Bruto(p) == 11 - (SomaMod11(p, 1) % 11)

DVMod11(p) ==
    IF DVMod11Bruto(p) \in {0, 10, 11} THEN 1 ELSE DVMod11Bruto(p)

SemDV(d) == Slice(d, 0, 4) \o Slice(d, 5, 44)

\* C10: a 44-digit string whose index-4 digit is the modulo-11 digit of
\* positions [0:4)+[5:44) is validated with no error.
C10_Modulo11RoundTrip ==
    (saida /= None /\ entrada.tipo = "barras"
       /\ entrada.digitos[5] = DigitChars[DVMod11(SemDV(entrada.digitos)) + 1])
    => (Val(saida).valido /\ Val(saida).erros = << >>)

\* A validated codigo de barras whose check digit is the collapsed 1.
C10_Witness ==
    /\ saida /= None /\ entrada.tipo = "barras"
    /\ DVMod11Bruto(SemDV(entrada.digitos)) \in {10, 11}
    /\ entrada.digitos[5] = "1"
    /\ Val(saida).valido

-----------------------------------------------------------------------------
(* Validator harness: validar_boleto_febraban applied to field sets.       *)

\* data.strftime('%d/%m/%Y')
DoisDigitos(n) == <<DigitChars[(n \div 10) + 1], DigitChars[(n % 10) + 1]>>
StrftimeDMY(y, m, d) ==
    DoisDigitos(d) \o <<"/">> \o DoisDigitos(m) \o <<"/">>
    \o DoisDigitos(y \div 100) \o DoisDigitos(y % 100)

\* A linha digitavel of bank 001 with its three check digits right, a codigo
\* de barras with its check digit right, a CNPJ with both check digits right.
LinhaBoa ==
    Chars(<<0, 0, 1, 9, 0, 0, 0, 0, 0, 9, 0, 1, 2, 3, 4, 5, 6, 7, 8, 9, 7, 0, 9, 8>>)
    \o Chars(<<7, 6, 5, 4, 3, 2, 1, 7, 7, 9, 8, 7, 6, 0, 0, 0, 0, 0, 1, 5, 0, 0, 0>>)
BarrasBoa ==
    Chars(<<0, 0, 1, 9, 1, 7, 9, 8, 7, 6, 0, 0, 0, 0, 0, 1, 5, 0, 0, 0, 0, 0>>)
    \o Chars(<<0, 0, 0, 0, 0, 0, 0, 0, 0, 0, 0, 0, 0, 0, 0, 0, 0, 0, 0, 0, 0, 0>>)
CnpjBom == Chars(<<1, 1, 2, 2, 2, 3, 3, 3, 0, 0, 0, 1, 8, 1>>)

\* XX.XXX.XXX/XXXX-XX (parser.py:207)
FormatarCnpj(c) ==
    Slice(c, 0, 2) \o <<".">> \o Slice(c, 2, 5) \o <<".">> \o Slice(c, 5, 8)
    \o <<"/">> \o Slice(c, 8, 12) \o <<"-">> \o Slice(c, 12, 14)

Decimal(mant, casas) == [mant |-> mant, casas |-> casas]

\* The reference day 2026-11-05 and the days around the validity window.
DiaHoje == Ordinal(2026, 11, 5)

LinhasCampo ==
    { None, Some(<< >>), Some(FormatarLinha(LinhaBoa)),
      Some(FormatarLinha([LinhaBoa EXCEPT ![10] = "5"])),
      Some([LinhaBoa EXCEPT ![10] = "5", ![21] = "1", ![32] = "0"]),
      Some(Slice(LinhaBoa, 0, 46)) }

BarrasCampo ==
    { None, Some(BarrasBoa), Some([BarrasBoa EXCEPT ![5] = "0"]),
      Some(Slice(BarrasBoa, 0, 43)) }

ValoresCampo ==
    { None, Some(Decimal(0, 1)), Some(Decimal(-100, 2)), Some(Decimal(15000, 2)),
      Some(Decimal(999999999, 2)), Some(Decimal(1000000000, 2)) }

VencimentosCampo ==
    { None, Some(StrftimeDMY(2026, 12, 5)),
      Some(StrftimeDMY(2021, 11, 6)), Some(StrftimeDMY(2021, 11, 5)),
      Some(StrftimeDMY(2028, 11, 5)), Some(StrftimeDMY(2028, 11, 6)),
      Some(StrftimeDMY(2026, 2, 31)),
      Some(<<"a", "m", "a", "n", "h", "a">>) }

CnpjsCampo ==
    { None, Some(FormatarCnpj(CnpjBom)),
      Some(FormatarCnpj([CnpjBom EXCEPT ![13] = "0"])),
      Some([CnpjBom EXCEPT ![13] = "0", ![14] = "0"]),
      Some(Chars([i \in 1..14 |-> 7])),
      Some(Slice(CnpjBom, 0, 13)) }

BancosCampo == { None, Some(<<"0", "0", "1">>), Some(<<"9", "9", "9">>) }

Relogios == { [dia |-> DiaHoje, fracao |-> f] : f \in BOOLEAN }

CamposDe(l, b, v, d, c, k) ==
    [codigo_barras |-> b, linha_digitavel |-> l, valor |-> v, vencimento |-> d,
     beneficiario_nome |-> None, beneficiario_cnpj |-> c, codigo_banco |-> k,
     banco_nome |-> None, agencia |-> None]

DVNulo == entrada = None /\ saida = None

InitValidador ==
    /\ campos \in { CamposDe(l, b, v, d, c, k) :
                      l \in LinhasCampo, b \in BarrasCampo, v \in ValoresCampo,
                      d \in VencimentosCampo, c \in CnpjsCampo, k \in BancosCampo }
    /\ relogio \in Relogios
    /\ resultado = None
    /\ DVNulo /\ JobNulo /\ CacheNulo /\ ExtNulo

ValidarBoleto ==
    /\ campos /= None /\ resultado = None
    /\ resultado' = Some(validar_boleto_febraban(campos, relogio))
    /\ UNCHANGED <<extVars, campos, relogio, dvVars, jobVars, cacheVars>>

NextValidador == ValidarBoleto

SpecValidador == InitValidador /\ [][NextValidador]_vars

-----------------------------------------------------------------------------
(* Claims on validar_boleto_febraban                                       *)

Coerente(r) == r.valido <=> (r.erros = << >>)

\* C6: every result of validar_boleto_febraban, and every sub-validator
\* result it records (linha digitavel, codigo de barras, valor, vencimento,
\* CNPJ, banco), on normal, early-return and exception paths, has
\* valido == (erros is empty).
C6_ValidoSseSemErros ==
    resultado /= None =>
        /\ Coerente(Val(resultado))
        /\ \A k \in DOMAIN Val(resultado).detalhes :
             Val(resultado).detalhes[k] /= None =>
                 Coerente(Val(Val(resultado).detalhes[k]))

\* A result in which validar_vencimento took its except path, the linha
\* check returned early on the length, the valor check found an error and the
\* bank check passed.
C6_Witness ==
    /\ resultado /= None
    /\ ~Val(resultado).valido
    /\ Val(resultado).detalhes.vencimento /= None
    /\ Val(Val(resultado).detalhes.vencimento).erros
         = <<MsgVencInvalida(<<"day", "is", "out", "of", "range", "for", "month">>)>>
    /\ Val(resultado).detalhes.linha_digitavel /= None
    /\ Val(Val(resultado).detalhes.linha_digitavel).erros = <<MsgTamanhoLinha(46)>>
    /\ Val(resultado).detalhes.valor /= None
    /\ ~Val(Val(resultado).detalhes.valor).valido
    /\ Val(resultado).detalhes.banco /= None
    /\ Val(Val(resultado).detalhes.banco).valido

\* The errors one check contributes: those of its sub-validator when the
\* field passes the presence test of the code, else its not-found error
\* (none for the optional fields).
ErrosDoCheck(tem, r, naoEncontrado) == IF tem THEN r.erros ELSE naoEncontrado

ErrosEsperados(d, hoje) ==
    ErrosDoCheck(TruthyStr(d.linha_digitavel),
                 validar_linha_digitavel(Val(d.linha_digitavel)),
                 <<MsgLinhaNaoEncontrada>>)
    \o ErrosDoCheck(TruthyStr(d.codigo_barras),
                    validar_codigo_barras(Val(d.codigo_barras)), << >>)
    \o ErrosDoCheck(TruthyValor(d.valor), validar_valor(Val(d.valor)),
                    <<MsgValorNaoEncontrado>>)
    \o ErrosDoCheck(TruthyStr(d.vencimento),
                    validar_vencimento(Val(d.vencimento), hoje),
                    <<MsgVencNaoEncontrado>>)
    \o ErrosDoCheck(TruthyStr(d.beneficiario_cnpj),
                    validar_cnpj(Val(d.beneficiario_cnpj)), << >>)
    \o ErrosDoCheck(TruthyStr(d.codigo_banco),
                    validar_codigo_banco(Val(d.codigo_banco)),
                    <<MsgBancoNaoEncontrado>>)

\* C7: validar_boleto_febraban is fail-slow: erros is the concatenation, in
\* check order (linha digitavel, codigo de barras, valor, vencimento, CNPJ,
\* banco) and without deduplication, of the errors of every applicable
\* sub-check and of the not-found errors; no sub-check's error suppresses or
\* replaces another's.
C7_FailSlow ==
    resultado /= None =>
        Val(resultado).erros = ErrosEsperados(campos, relogio)

\* A result carrying, in order, three DV errors of the linha, the barcode
\* error, a not-found error, a vencimento error, two CNPJ errors and the
\* unknown-bank error.
C7_Witness ==
    /\ resultado /= None
    /\ Len(Val(resultado).erros) = 9
    /\ Val(resultado).erros[1].p[1] = "DV1"
    /\ Val(resultado).erros[4].p[1] = "DV"
    /\ Val(resultado).erros[5] = MsgValorNaoEncontrado
    /\ Val(resultado).erros[6].p[1] = "Boleto"
    /\ Val(resultado).erros[7] = MsgCnpjDV1
    /\ Val(resultado).erros[8] = MsgCnpjDV2
    /\ Val(resultado).erros[9].p[1] = "Codigo"

\* How many times message m occurs in erros.
RECURSIVE Conta(_, _)
Conta(erros, m) ==
    IF erros = << >> THEN 0
    ELSE (IF Head(erros) = m THEN 1 ELSE 0) + Conta(Tail(erros), m)

\* A field is missing when it is None or an empty string.
Falta(o) == o = None \/ Val(o) = << >>

\* C8: each mandatory field (linha_digitavel, valor, vencimento,
\* codigo_banco) that is missing appends exactly one not-found error for that
\* field; a mandatory field that is present never produces a not-found
\* error; a missing codigo_barras or CNPJ appends no error.
C8_NaoEncontrado ==
    resultado /= None =>
        LET e == Val(resultado).erros
        IN  /\ Conta(e, MsgLinhaNaoEncontrada)
                 = IF Falta(campos.linha_digitavel) THEN 1 ELSE 0
            /\ Conta(e, MsgValorNaoEncontrado)
                 = IF campos.valor = None THEN 1 ELSE 0
            /\ Conta(e, MsgVencNaoEncontrado)
                 = IF Falta(campos.vencimento) THEN 1 ELSE 0
            /\ Conta(e, MsgBancoNaoEncontrado)
                 = IF Falta(campos.codigo_banco) THEN 1 ELSE 0
            /\ (/\ Falta(campos.codigo_barras) /\ Falta(campos.beneficiario_cnpj)
                /\ ~Falta(campos.linha_digitavel) /\ campos.valor /= None
                /\ ~Falta(campos.vencimento) /\ ~Falta(campos.codigo_banco))
               => \A i \in 1..Len(e) :
                      e[i] \notin {MsgLinhaNaoEncontrada, MsgValorNaoEncontrado,
                                   MsgVencNaoEncontrado, MsgBancoNaoEncontrado}

-----------------------------------------------------------------------------
(* ml/parser.py: the regular expressions, matched as re.search matches     *)
(* them.  A position is a 1-based index of the next character; 0 is a      *)
(* failed match.                                                           *)

Minusculas ==
    {"a", "b", "c", "d", "e", "i", "j", "l", "m", "n", "o", "p", "r", "t", "v"}
Maiusculas == {"C", "J", "N", "P", "R", "V"}

\* c.lower(), as re.IGNORECASE folds the case of a character
LowerChar(c) ==
    CASE c = "C" -> "c" [] c = "J" -> "j" [] c = "N" -> "n" [] c = "P" -> "p"
      [] c = "R" -> "r" [] c = "V" -> "v" [] OTHER -> c

\* \s and \w
IsSpace(c) == c \in {" ", "\n", "\t"}
IsWord(c) == IsDigit(c) \/ c \in Minusculas \/ c \in Maiusculas \/ c = "_"

\* the character at position p, or "" past the end
At(t, p) == IF p >= 1 /\ p <= Len(t) THEN t[p] ELSE ""

\* \d{n} at p
NDig(t, p, n) ==
    IF p = 0 \/ p + n - 1 > Len(t) THEN 0
    ELSE IF \A i \in p..(p + n - 1) : IsDigit(t[i]) THEN p + n ELSE 0

\* [.\s]? at p; the optional separators of these patterns are always followed
\* by \d, so taking the separator when it is there is the only way to match
OptPontoEspaco(t, p) ==
    IF p = 0 THEN 0 ELSE IF At(t, p) = "." \/ IsSpace(At(t, p)) THEN p + 1 ELSE p
\* \s? at p
OptEspaco(t, p) == IF p = 0 THEN 0 ELSE IF IsSpace(At(t, p)) THEN p + 1 ELSE p
\* [/\s]? at p
OptBarraEspaco(t, p) ==
    IF p = 0 THEN 0 ELSE IF At(t, p) = "/" \/ IsSpace(At(t, p)) THEN p + 1 ELSE p
\* [-\s]? at p
OptHifenEspaco(t, p) ==
    IF p = 0 THEN 0 ELSE IF At(t, p) = "-" \/ IsSpace(At(t, p)) THEN p + 1 ELSE p
\* a literal character at p, case folded
Lit(t, p, c) ==
    IF p = 0 THEN 0 ELSE IF LowerChar(At(t, p)) = LowerChar(c) THEN p + 1 ELSE 0

\* a literal word at p, case folded
RECURSIVE LitSeq(_, _, _)
LitSeq(t, p, w) ==
    IF w = << >> \/ p = 0 THEN p ELSE LitSeq(t, Lit(t, p, Head(w)), Tail(w))

\* \b at p: a word boundary between positions p - 1 and p
Fronteira(t, p) == IsWord(At(t, p - 1)) /= IsWord(At(t, p))

\* re.search: the leftmost position where the pattern matches, or 0
Menor(S) == IF S = {} THEN 0 ELSE CHOOSE p \in S : \A q \in S : p <= q

\* texto.replace('\n', ' ')
SemQuebras(t) == [i \in 1..Len(t) |-> IF t[i] = "\n" THEN " " ELSE t[i]]

\* (\d{5})[.\s]?(\d{5})\s?(\d{5})[.\s]?(\d{6})\s?(\d{5})[.\s]?(\d{6})\s?(\d)\s?(\d{14})
\* at p: the start positions of the eight groups and the end, or << >>
CasaLinha(t, p) ==
    LET g1 == p
        g2 == OptPontoEspaco(t, NDig(t, g1, 5))
        g3 == OptEspaco(t, NDig(t, g2, 5))
        g4 == OptPontoEspaco(t, NDig(t, g3, 5))
        g5 == OptEspaco(t, NDig(t, g4, 6))
        g6 == OptPontoEspaco(t, NDig(t, g5, 5))
        g7 == OptEspaco(t, NDig(t, g6, 6))
        g8 == OptEspaco(t, NDig(t, g7, 1))
        fim == NDig(t, g8, 14)
    IN  IF fim = 0 THEN << >> ELSE <<g1, g2, g3, g4, g5, g6, g7, g8, fim>>

Grupo(t, p, n) == SubSeq(t, p, p + n - 1)

extrair_linha_digitavel(texto_ocr) ==
    LET t == SemQuebras(texto_ocr)
        p == Menor({q \in 1..Len(t) : CasaLinha(t, q) /= << >>})
        s == Menor({q \in 1..Len(t) :
                      /\ Fronteira(t, q) /\ NDig(t, q, 47) /= 0
                      /\ Fronteira(t, q + 47)})
    IN  IF p /= 0
        THEN LET g == CasaLinha(t, p)
             IN  Some(Grupo(t, g[1], 5) \o <<".">> \o Grupo(t, g[2], 5) \o <<" ">>
                      \o Grupo(t, g[3], 5) \o <<".">> \o Grupo(t, g[4], 6) \o <<" ">>
                      \o Grupo(t, g[5], 5) \o <<".">> \o Grupo(t, g[6], 6) \o <<" ">>
                      \o Grupo(t, g[7], 1) \o <<" ">> \o Grupo(t, g[8], 14))
        ELSE IF s /= 0 THEN Some(FormatarLinha(Grupo(t, s, 47)))
        ELSE None

\* \b(\d{44})\b
extrair_codigo_barras(t) ==
    LET p == Menor({q \in 1..Len(t) :
                      /\ Fronteira(t, q) /\ NDig(t, q, 44) /= 0
                      /\ Fronteira(t, q + 44)})
    IN  IF p = 0 THEN None ELSE Some(Grupo(t, p, 44))

\* ---- extrair_valor

IsSep(c) == c = "." \/ c = ","

\* (?:[.,]\d{3})*[.,]\d{2} at p: the star is greedy and gives a group back
\* when the rest does not match
RECURSIVE CasaMilhares(_, _)
CasaMilhares(t, p) ==
    LET comGrupo == IF IsSep(At(t, p)) /\ NDig(t, p + 1, 3) /= 0
                    THEN CasaMilhares(t, p + 4) ELSE 0
    IN  IF comGrupo /= 0 THEN comGrupo
        ELSE IF IsSep(At(t, p)) THEN NDig(t, p + 1, 2) ELSE 0

\* \d{1,3}(?:[.,]\d{3})*[.,]\d{2} at p: the end of the amount, or 0
CasaQuantia(t, p) ==
    LET com(n) == IF NDig(t, p, n) /= 0 THEN CasaMilhares(t, p + n) ELSE 0
    IN  IF p = 0 THEN 0
        ELSE IF com(3) /= 0 THEN com(3)
        ELSE IF com(2) /= 0 THEN com(2)
        ELSE com(1)

\* R\$?\s?( at p: the start of the amount group, or 0
CasaCifrao(t, p) ==
    LET q == Lit(t, p, "R")
        r == IF q /= 0 /\ At(t, q) = "$" THEN q + 1 ELSE q
    IN  OptEspaco(t, r)

\* [:\s]+ at p
RECURSIVE UmOuMaisDoisPontosEspaco(_, _)
UmOuMaisDoisPontosEspaco(t, p) ==
    IF p = 0 \/ ~(At(t, p) = ":" \/ IsSpace(At(t, p))) THEN 0
    ELSE IF At(t, p + 1) = ":" \/ IsSpace(At(t, p + 1))
         THEN UmOuMaisDoisPontosEspaco(t, p + 1)
         ELSE p + 1

\* The start of group 1 of padroes[k] matched at p, or 0.
InicioQuantia(t, p, k) ==
    IF k = 1 THEN CasaCifrao(t, p)
    ELSE IF k = 2
    THEN CasaCifrao(t, UmOuMaisDoisPontosEspaco(
                           t, LitSeq(t, p, <<"V", "a", "l", "o", "r">>)))
    ELSE p

\* re.search(padroes[k], texto, re.IGNORECASE).group(1), or << >>
BuscaQuantia(t, k) ==
    LET p == Menor({q \in 1..Len(t) :
                      CasaQuantia(t, InicioQuantia(t, q, k)) /= 0})
    IN  IF p = 0 THEN << >>
        ELSE LET i == InicioQuantia(t, p, k)
             IN  SubSeq(t, i, CasaQuantia(t, i) - 1)

\* s.replace(c, '') and the count of c in s
RECURSIVE Sem(_, _)
Sem(s, c) ==
    IF s = << >> THEN << >>
    ELSE (IF Head(s) = c THEN << >> ELSE <<Head(s)>>) \o Sem(Tail(s), c)

\* the index of the first c in s, or 0
Indice(s, c) == Menor({i \in 1..Len(s) : s[i] = c})

\* float(valor_str.replace('.', '').replace(',', '.')): None stands for the
\* ValueError of a string with two decimal points
ParaFloat(valor_str) ==
    LET semPontos == Sem(valor_str, ".")
        virgula == Indice(semPontos, ",")
        digitos == Sem(semPontos, ",")
    IN  IF Len(semPontos) - Len(digitos) > 1 THEN None
        ELSE Some(Decimal(IntDe(digitos),
                          IF virgula = 0 THEN 0 ELSE Len(semPontos) - virgula))

RECURSIVE ValorDoPadrao(_, _)
ValorDoPadrao(t, k) ==
    IF k > 3 THEN None
    ELSE LET g == BuscaQuantia(t, k)
         IN  IF g /= << >> /\ ParaFloat(g) /= None THEN ParaFloat(g)
             ELSE ValorDoPadrao(t, k + 1)

extrair_valor(t) == ValorDoPadrao(t, 1)

\* ---- extrair_vencimento

\* \d{2}/\d{2}/\d{n} at p
CasaData(t, p, n) ==
    LET a == NDig(t, p, 2)
        b == NDig(t, IF a /= 0 /\ At(t, a) = "/" THEN a + 1 ELSE 0, 2)
    IN  NDig(t, IF b /= 0 /\ At(t, b) = "/" THEN b + 1 ELSE 0, n)

InicioData(t, p, k) ==
    IF k = 1
    THEN UmOuMaisDoisPontosEspaco(
             t, LitSeq(t, p, <<"V", "e", "n", "c", "i", "m", "e", "n", "t", "o">>))
    ELSE p

\* re.search(padroes[k], texto, re.IGNORECASE).group(1), or << >>
BuscaData(t, k) ==
    LET n == IF k = 3 THEN 2 ELSE 4
        p == Menor({q \in 1..Len(t) : CasaData(t, InicioData(t, q, k), n) /= 0})
    IN  IF p = 0 THEN << >>
        ELSE LET i == InicioData(t, p, k) IN SubSeq(t, i, CasaData(t, i, n) - 1)

\* datetime.strptime(s, '%d/%m/%y'): 00..68 are 2000..2068, 69..99 are
\* 1969..1999
SeculoDe(yy) == IF yy <= 68 THEN 2000 + yy ELSE 1900 + yy

DataValidada(data_str) ==
    IF Len(data_str) = 10
    THEN IF StrptimeDMY(data_str).ok THEN Some(data_str) ELSE None
    ELSE LET y == SeculoDe(IntDe(Slice(data_str, 6, 8)))
             longa == Slice(data_str, 0, 6) \o DoisDigitos(y \div 100)
                      \o DoisDigitos(y % 100)
             t == StrptimeDMY(longa)
         IN  IF t.ok THEN Some(StrftimeDMY(t.y, t.m, t.d)) ELSE None

RECURSIVE VencimentoDoPadrao(_, _)
VencimentoDoPadrao(t, k) ==
    IF k > 3 THEN None
    ELSE LET g == BuscaData(t, k)
         IN  IF g /= << >> /\ DataValidada(g) /= None THEN DataValidada(g)
             ELSE VencimentoDoPadrao(t, k + 1)

extrair_vencimento(t) == VencimentoDoPadrao(t, 1)

\* ---- extrair_cnpj

\* \d{2}[.\s]?\d{3}[.\s]?\d{3}[/\s]?\d{4}[-\s]?\d{2} at p
CasaCnpj(t, p) ==
    NDig(t, OptHifenEspaco(t, NDig(t, OptBarraEspaco(t, NDig(t,
         OptPontoEspaco(t, NDig(t, OptPontoEspaco(t, NDig(t, p, 2)), 3)), 3)),
         4)), 2)

extrair_cnpj(t) ==
    LET p == Menor({q \in 1..Len(t) : CasaCnpj(t, q) /= 0})
        s == Menor({q \in 1..Len(t) :
                      /\ Fronteira(t, q) /\ NDig(t, q, 14) /= 0
                      /\ Fronteira(t, q + 14)})
    IN  IF p /= 0 /\ Len(SoDigitos(SubSeq(t, p, CasaCnpj(t, p) - 1))) = 14
        THEN Some(FormatarCnpj(SoDigitos(SubSeq(t, p, CasaCnpj(t, p) - 1))))
        ELSE IF s /= 0 THEN Some(FormatarCnpj(Grupo(t, s, 14)))
        ELSE None

\* ---- identificar_banco

bancos ==
    { <<"0", "0", "1">>, <<"0", "3", "3">>, <<"1", "0", "4">>, <<"2", "3", "7">>,
      <<"3", "4", "1">>, <<"7", "4", "8">>, <<"7", "5", "6">>, <<"0", "7", "7">>,
      <<"2", "6", "0">>, <<"2", "9", "0">>, <<"4", "0", "3">> }

\* The name of a listed bank: a str, kept whole.
NomeDoBanco(codigo) ==
    CASE codigo = <<"0", "0", "1">> -> <<"Banco do Brasil">>
      [] codigo = <<"0", "3", "3">> -> <<"Santander">>
      [] codigo = <<"1", "0", "4">> -> <<"Caixa Economica Federal">>
      [] codigo = <<"2", "3", "7">> -> <<"Bradesco">>
      [] codigo = <<"3", "4", "1">> -> <<"Itau">>
      [] codigo = <<"7", "4", "8">> -> <<"Sicredi">>
      [] codigo = <<"7", "5", "6">> -> <<"Bancoob">>
      [] codigo = <<"0", "7", "7">> -> <<"Banco Inter">>
      [] codigo = <<"2", "6", "0">> -> <<"Nubank">>
      [] codigo = <<"2", "9", "0">> -> <<"PagSeguro">>
      [] codigo = <<"4", "0", "3">> -> <<"Cora">>

\* bancos.get(codigo_banco, f"Banco {codigo_banco}"): a listed code gives its
\* name; anything else, None included, gives "Banco " followed by its str
identificar_banco(codigo_banco) ==
    IF codigo_banco /= None /\ Val(codigo_banco) \in bancos
    THEN NomeDoBanco(Val(codigo_banco))
    ELSE <<"Banco ">> \o (IF codigo_banco = None THEN <<"None">>
                          ELSE Val(codigo_banco))

\* ---- parse_dados_boleto

parse_dados_boleto(texto_ocr) ==
    LET linha_digitavel == extrair_linha_digitavel(texto_ocr)
        codigo_banco == IF TruthyStr(linha_digitavel)
                        THEN Some(Slice(Val(linha_digitavel), 0, 3)) ELSE None
        valor == extrair_valor(texto_ocr)
        banco == identificar_banco(codigo_banco)
    IN  [codigo_barras |-> extrair_codigo_barras(texto_ocr),
         linha_digitavel |-> linha_digitavel,
         valor |-> IF TruthyValor(valor) THEN valor ELSE None,
         vencimento |-> extrair_vencimento(texto_ocr),
         beneficiario_nome |-> None,
         beneficiario_cnpj |-> extrair_cnpj(texto_ocr),
         codigo_banco |-> codigo_banco,
         banco_nome |-> IF banco /= << >> THEN Some(banco) ELSE None,
         agencia |-> None]

-----------------------------------------------------------------------------
(* ml/model.py                                                             *)

\* linha.replace('.', '').replace(' ', '')
SemPontosEspacos(s) == Sem(Sem(s, "."), " ")

preparar_features(d) ==
    LET linha == IF d.linha_digitavel = None THEN << >> ELSE Val(d.linha_digitavel)
        linha_digitos == SemPontosEspacos(linha)
        codigo_banco == IF d.codigo_banco = None THEN 0
                        ELSE IntDe(Val(d.codigo_banco))
        \* agencia.split('-')[0]
        traco == Indice(Val(d.agencia), "-")
        parte == IF traco = 0 THEN Val(d.agencia)
                 ELSE Slice(Val(d.agencia), 0, traco - 1)
    IN  [banco |-> codigo_banco,
         codigoBanco |-> codigo_banco,
         agencia |-> IF d.agencia = None THEN 0
                     ELSE IF parte /= << >> /\ TodosDigitos(parte)
                     THEN IntDe(parte) ELSE 0,
         valor |-> IF d.valor = None THEN Decimal(0, 1) ELSE Val(d.valor),
         linha_codBanco |-> IF Len(linha_digitos) >= 3
                            THEN IntDe(Slice(linha_digitos, 0, 3)) ELSE 0,
         linha_moeda |-> IF Len(linha_digitos) >= 4
                         THEN DigitVal(linha_digitos[4]) ELSE 0,
         linha_valor |-> IF Len(linha_digitos) >= 47
                         THEN IntDe(Slice(linha_digitos, 37, 47)) ELSE 0]

\* A column order with linha_moeda ahead of linha_codBanco.
feature_names_MoedaAntes ==
    <<"banco", "codigoBanco", "agencia", "valor",
      "linha_moeda", "linha_codBanco", "linha_valor">>

feature_names ==
    <<"banco", "codigoBanco", "agencia", "valor",
      "linha_codBanco", "linha_moeda", "linha_valor">>

\* int(prob_falso * 100) for prob_falso = k / 1000 as a double: the product
\* is k / 10 except that 0.29, 0.57 and 0.58 times 100 fall just below the
\* integer
TruncaPorcento(k) == IF k \in {290, 570, 580} THEN (k \div 10) - 1 ELSE k \div 10

Max(a, b) == IF a >= b THEN a ELSE b

\* resposta is what the classifier answers for the feature vector:
\* [classe, prob_falso, prob_verdadeiro], probabilities in thousandths.
predizer_fraude(resposta, feats) ==
    [is_fraudulento |-> resposta.classe = 0,
     classe_predita |-> resposta.classe,
     score_fraude |-> TruncaPorcento(resposta.prob_falso),
     confianca |-> Max(resposta.prob_falso, resposta.prob_verdadeiro),
     probabilidades |-> [falso |-> resposta.prob_falso,
                         verdadeiro |-> resposta.prob_verdadeiro],
     features_usadas |-> feats,
     vetor |-> [i \in 1..Len(feature_names) |-> feats[feature_names[i]]]]

-----------------------------------------------------------------------------
(* ml/explainer.py                                                         *)

\* word.lower() for the capitalised words of the error messages
Lower(w) ==
    CASE w = "Linha" -> "linha" [] w = "Codigo" -> "codigo" [] w = "DV" -> "dv"
      [] w = "DV1" -> "dv1" [] w = "DV2" -> "dv2" [] w = "DV3" -> "dv3"
      [] w = "Valor" -> "valor" [] w = "R$" -> "r$" [] w = "CNPJ" -> "cnpj"
      [] w = "Vencimento" -> "vencimento" [] w = "Boleto" -> "boleto"
      [] w = "Data" -> "data" [] w = "Primeiro" -> "primeiro"
      [] w = "Segundo" -> "segundo" [] OTHER -> w

\* erro.lower()
LowerMsg(erro) == [i \in 1..Len(erro.p) |-> Lower(erro.p[i])]

\* palavra in erro_lower, for a keyword of one or more words
Contem(palavras, chave) ==
    \E i \in 1..(Len(palavras) - Len(chave) + 1) :
        SubSeq(palavras, i, i + Len(chave) - 1) = chave

\* An alta-first cascade: the second rule of the code tried before the first.
_determinar_gravidade_AltaPrimeiro(erro) ==
    LET erro_lower == LowerMsg(erro)
        algum(chaves) == \E c \in chaves : Contem(erro_lower, c)
    IN  IF algum({<<"digito", "verificador">>, <<"codigo", "de", "barras">>})
        THEN "alta"
        ELSE IF algum({<<"invalido">>, <<"incorreto">>, <<"falha", "critica">>})
        THEN "critica"
        ELSE IF algum({<<"formato">>, <<"incompleto">>}) THEN "media"
        ELSE "baixa"

_determinar_gravidade(erro) ==
    LET erro_lower == LowerMsg(erro)
        algum(chaves) == \E c \in chaves : Contem(erro_lower, c)
    IN  IF algum({<<"invalido">>, <<"incorreto">>, <<"falha", "critica">>})
        THEN "critica"
        ELSE IF algum({<<"digito", "verificador">>, <<"codigo", "de", "barras">>})
        THEN "alta"
        ELSE IF algum({<<"formato">>, <<"incompleto">>}) THEN "media"
        ELSE "baixa"

\* An impact table whose critica row holds the alta value.
_calcular_impacto_CriticaComoAlta(gravidade) ==
    CASE gravidade = "critica" -> 80 [] gravidade = "alta" -> 80
      [] gravidade = "media" -> 60 [] gravidade = "baixa" -> 30 [] OTHER -> 50

_calcular_impacto(gravidade) ==
    CASE gravidade = "critica" -> 95 [] gravidade = "alta" -> 80
      [] gravidade = "media" -> 60 [] gravidade = "baixa" -> 30 [] OTHER -> 50

_get_cor_gravidade(gravidade) ==
    CASE gravidade = "critica" -> "danger" [] gravidade = "alta" -> "warning"
      [] gravidade = "media" -> "medium" [] gravidade = "baixa" -> "primary"
      [] OTHER -> "medium"

\* x > num / 10 and x < num / 10 for the int score_fraude against a decimal
\* literal of the code
AcimaDeDecimos(x, num) == x * 10 > num
AbaixoDeDecimos(x, num) == x * 10 < num

_identificar_principal_motivo(resultado_validacao, predicao) ==
    LET erros == resultado_validacao.erros
        criticos == SelectSeq(erros,
                      LAMBDA e : Contem(LowerMsg(e), <<"invalido">>)
                                 \/ Contem(LowerMsg(e), <<"incorreto">>))
        score == predicao.score_fraude
    IN  IF erros /= << >>
        THEN IF criticos /= << >>
             THEN [texto |-> "Possivel irregularidade detectada", erro |-> Some(criticos[1])]
             ELSE [texto |-> "Inconsistencia identificada", erro |-> Some(erros[1])]
        ELSE IF AcimaDeDecimos(score, 8)
        THEN [texto |-> "Modelo de ML identificou padrao suspeito com alta confianca",
              erro |-> None]
        ELSE IF AcimaDeDecimos(score, 6)
        THEN [texto |-> "Modelo de ML identificou caracteristicas atipicas",
              erro |-> None]
        ELSE IF AbaixoDeDecimos(score, 3)
        THEN [texto |-> "Todas as verificacoes sugerem autenticidade", erro |-> None]
        ELSE [texto |-> "Analise inconclusiva - recomenda-se verificacao manual",
              erro |-> None]

Razao(gravidade, categoria, cor, titulo, impacto, fonte, erro) ==
    [gravidade |-> gravidade, categoria |-> categoria, cor |-> cor,
     titulo |-> titulo, impacto |-> impacto, fonte |-> fonte, erro |-> erro]

RazaoDeErro(erro) ==
    LET gravidade == _determinar_gravidade(erro)
    IN  Razao(gravidade, "validacao_tecnica", _get_cor_gravidade(gravidade),
              "Possivel Inconsistencia Tecnica", _calcular_impacto(gravidade),
              "Validacao FEBRABAN", Some(erro))

RazaoPadraoSuspeito ==
    Razao("alta", "machine_learning", "danger", "Padrao Suspeito Identificado",
          85, "Machine Learning", None)
RazaoPadraoNormal ==
    Razao("baixa", "machine_learning", "success", "Padrao Aparentemente Normal",
          15, "Machine Learning", None)
RazaoValorElevado ==
    Razao("media", "valor", "warning", "Valor Elevado", 60, "Analise de Risco", None)
RazaoGenerica ==
    Razao("baixa", "geral", "primary", "Analise Completa Realizada", 30,
          "Sistema DetectaBB", None)

\* A construction that appends the elevated-value entry before the
\* classifier's entry.
_gerar_razoes_detalhadas_ValorAntes(d, resultado_validacao, predicao) ==
    LET erros == resultado_validacao.erros
        deErros == [i \in 1..Len(erros) |-> RazaoDeErro(erros[i])]
        score_fraude == predicao.score_fraude
        deML == IF AcimaDeDecimos(score_fraude, 7) THEN <<RazaoPadraoSuspeito>>
                ELSE IF AbaixoDeDecimos(score_fraude, 3) THEN <<RazaoPadraoNormal>>
                ELSE << >>
        deValor == IF AcimaDe(Val(d.valor), 1000000) THEN <<RazaoValorElevado>>
                   ELSE << >>
        razoes == deErros \o deValor \o deML
    IN  IF d.valor = None THEN None
        ELSE Some(IF razoes = << >> THEN <<RazaoGenerica>> ELSE razoes)

\* dados_extraidos.get('valor', 0) > 10000 raises TypeError when the key
\* holds None (the parser always sets the key): the result is then None.
_gerar_razoes_detalhadas(d, resultado_validacao, predicao) ==
    LET erros == resultado_validacao.erros
        deErros == [i \in 1..Len(erros) |-> RazaoDeErro(erros[i])]
        score_fraude == predicao.score_fraude
        deML == IF AcimaDeDecimos(score_fraude, 7) THEN <<RazaoPadraoSuspeito>>
                ELSE IF AbaixoDeDecimos(score_fraude, 3) THEN <<RazaoPadraoNormal>>
                ELSE << >>
        deValor == IF AcimaDe(Val(d.valor), 1000000) THEN <<RazaoValorElevado>>
                   ELSE << >>
        razoes == deErros \o deML \o deValor
    IN  IF d.valor = None THEN None
        ELSE Some(IF razoes = << >> THEN <<RazaoGenerica>> ELSE razoes)

Recomendacao(nivel_risco, cor, acao_principal, n_passos) ==
    [nivel_risco |-> nivel_risco, cor |-> cor, acao_principal |-> acao_principal,
     proximos_passos |-> n_passos]

\* A lookup whose upper band starts above 0.85.
_gerar_recomendacao_LimiteEstrito(is_fraudulento, confianca) ==
    IF is_fraudulento
    THEN IF confianca > 850
         THEN Recomendacao("ALTO", "danger",
                           "NAO PAGAR (Alta Probabilidade de Fraude)", 5)
         ELSE IF confianca >= 650
         THEN Recomendacao("MEDIO-ALTO", "warning", "VERIFICAR ANTES DE PAGAR", 5)
         ELSE Recomendacao("MEDIO", "warning", "PROCEDER COM CAUTELA", 4)
    ELSE IF confianca > 850
         THEN Recomendacao("BAIXO", "success", "PODE PAGAR (Com Verificacao)", 5)
         ELSE IF confianca >= 650
         THEN Recomendacao("BAIXO-MEDIO", "success", "PROVAVEL AUTENTICIDADE", 4)
         ELSE Recomendacao("INCERTO", "medium", "VERIFICAR MANUALMENTE", 4)

\* proximos_passos is kept as the length of the list of fixed strings.
_gerar_recomendacao(is_fraudulento, confianca) ==
    IF is_fraudulento
    THEN IF confianca >= 850
         THEN Recomendacao("ALTO", "danger",
                           "NAO PAGAR (Alta Probabilidade de Fraude)", 5)
         ELSE IF confianca >= 650
         THEN Recomendacao("MEDIO-ALTO", "warning", "VERIFICAR ANTES DE PAGAR", 5)
         ELSE Recomendacao("MEDIO", "warning", "PROCEDER COM CAUTELA", 4)
    ELSE IF confianca >= 850
         THEN Recomendacao("BAIXO", "success", "PODE PAGAR (Com Verificacao)", 5)
         ELSE IF confianca >= 650
         THEN Recomendacao("BAIXO-MEDIO", "success", "PROVAVEL AUTENTICIDADE", 4)
         ELSE Recomendacao("INCERTO", "medium", "VERIFICAR MANUALMENTE", 4)

NivelConfianca(confianca) ==
    IF confianca >= 900 THEN "Muito Alta"
    ELSE IF confianca >= 750 THEN "Alta"
    ELSE IF confianca >= 600 THEN "Media"
    ELSE "Baixa"

\* None stands for the TypeError leaving _gerar_razoes_detalhadas.
gerar_explicacao_humanizada(dados_extraidos, resultado_validacao, predicao, agora) ==
    LET is_fraudulento == predicao.is_fraudulento
        score_fraude == predicao.score_fraude
        confianca == predicao.confianca
        razoes == _gerar_razoes_detalhadas(dados_extraidos, resultado_validacao,
                                           predicao)
    IN  IF razoes = None THEN None
        ELSE Some(
          [simples |->
             [status |-> IF is_fraudulento THEN "POSSIVELMENTE FALSO"
                         ELSE "POSSIVELMENTE AUTENTICO",
              confianca |-> NivelConfianca(confianca),
              principal_motivo |->
                  _identificar_principal_motivo(resultado_validacao, predicao),
              acao_recomendada |->
                  IF is_fraudulento
                  THEN "Recomendamos NAO efetuar o pagamento sem verificacao adicional"
                  ELSE "Voce pode prosseguir com cautela, mas sempre verifique os dados"],
           avancado |->
             [analise_tecnica |->
                [score_fraude |-> score_fraude * 100,
                 confianca_permil |-> confianca,
                 probabilidades |-> predicao.probabilidades],
              metricas |->
                [features_analisadas |-> 0,
                 validacoes_tecnicas |-> Len(resultado_validacao.erros)],
              detalhes_tecnicos |->
                [validacao_febraban |-> ~resultado_validacao.valido,
                 erros_encontrados |-> resultado_validacao.erros,
                 features_importantes |-> << >>]],
           razoes |-> Val(razoes),
           recomendacao |-> _gerar_recomendacao(is_fraudulento, confianca),
           gerado_em |-> agora])

-----------------------------------------------------------------------------
(* worker/tasks.py: processar_boleto                                       *)

\* A fusion that asks for both signals.
is_fraudulento_final_Conjuncao(v, p) == (~v.valido) /\ p.is_fraudulento

\* tasks.py:67
is_fraudulento_final(v, p) == (~v.valido) \/ p.is_fraudulento

\* A fusion that records the classifier whenever the verdict is fraudulent.
metodos_final_PeloVeredito(v, p) ==
    (IF ~v.valido THEN <<"validacao_febraban">> ELSE << >>)
    \o (IF (~v.valido) \/ p.is_fraudulento THEN <<"modelo_ml">> ELSE << >>)

\* tasks.py:69-73
metodos_final(v, p) ==
    (IF ~v.valido THEN <<"validacao_febraban">> ELSE << >>)
    \o (IF p.is_fraudulento THEN <<"modelo_ml">> ELSE << >>)

\* OCR texts: one line per segment, each segment present or not.
RotuloCnpj ==
    <<"C", "N", "P", "J", ":", " ">>
TextoValor150 ==
    <<"R", "$", " ", "1", "5", "0", ",", "0", "0">>
TextoValor15000 ==
    <<"R", "$", " ", "1", "5", ".", "0", "0", "0", ",", "0", "0">>
TextoValorZero ==
    <<"R", "$", " ", "0", ",", "0", "0">>
RotuloVencimento ==
    <<"V", "e", "n", "c", "i", "m", "e", "n", "t", "o", ":", " ">>
QuebraDeLinha ==
    <<"\n">>

SegmentosCnpj ==
    { << >>, RotuloCnpj \o FormatarCnpj(CnpjBom),
      RotuloCnpj \o FormatarCnpj([CnpjBom EXCEPT ![14] = "0"]) }
\* LinhaBoa with the bank code 999, outside bancos_validos, its first check
\* digit recomputed.
LinhaBancoDesconhecido ==
    [LinhaBoa EXCEPT ![1] = "9", ![2] = "9", ![3] = "9", ![10] = "4"]

SegmentosLinha ==
    { << >>, FormatarLinha(LinhaBoa), LinhaBoa,
      FormatarLinha([LinhaBoa EXCEPT ![10] = "5"]),
      FormatarLinha(LinhaBancoDesconhecido) }
SegmentosBarras == { << >>, BarrasBoa }
SegmentosValor == { << >>, TextoValor150, TextoValor15000, TextoValorZero }
SegmentosVencimento ==
    { << >>, RotuloVencimento \o StrftimeDMY(2026, 12, 5),
      RotuloVencimento \o StrftimeDMY(1999, 10, 10) }

Linha(segmento) == IF segmento = << >> THEN << >> ELSE segmento \o QuebraDeLinha

Textos ==
    { Linha(c) \o Linha(l) \o Linha(b) \o Linha(v) \o Linha(d) :
        c \in SegmentosCnpj, l \in SegmentosLinha, b \in SegmentosBarras,
        v \in SegmentosValor, d \in SegmentosVencimento }

\* Answers of the classifier: predict is the argmax of predict_proba, the
\* probabilities in thousandths sum to one.
ProbabilidadesFalso ==
    {0, 50, 150, 290, 296, 350, 400, 500, 650, 710, 850, 1000}

Respostas ==
    { [classe |-> IF k >= 500 THEN 0 ELSE 1, prob_falso |-> k,
       prob_verdadeiro |-> 1000 - k] : k \in ProbabilidadesFalso }

Init ==
    /\ DVNulo /\ ValNulo /\ CacheNulo /\ ExtNulo
    /\ pc = "parser"
    /\ texto \in Textos
    /\ classificador = None
    /\ dados = None /\ validacao = None /\ features = None
    /\ predicao_ml = None /\ fusao = None /\ fraudeAnalise = None
    /\ explicacao = None /\ excecao = None

\* tasks.py:54
Parser ==
    /\ pc = "parser"
    /\ dados' = Some(parse_dados_boleto(texto))
    /\ pc' = "validacao"
    /\ UNCHANGED <<extVars, dvVars, valVars, cacheVars, texto, classificador, validacao, features,
                   predicao_ml, fusao, fraudeAnalise, explicacao, excecao>>

\* tasks.py:58; validar_vencimento reads the clock
Validacao ==
    /\ pc = "validacao"
    /\ \E agora \in Relogios :
          /\ relogio' = agora
          /\ validacao' = Some(validar_boleto_febraban(Val(dados), agora))
    /\ pc' = "features"
    /\ UNCHANGED <<extVars, dvVars, cacheVars, campos, resultado, texto, classificador, dados,
                   features, predicao_ml, fusao, fraudeAnalise, explicacao,
                   excecao>>

\* tasks.py:63
PrepararFeatures ==
    /\ pc = "features"
    /\ features' = Some(preparar_features(Val(dados)))
    /\ pc' = "predicao"
    /\ UNCHANGED <<extVars, dvVars, valVars, cacheVars, texto, classificador, dados, validacao,
                   predicao_ml, fusao, fraudeAnalise, explicacao, excecao>>

\* tasks.py:64; the classifier answers for the feature vector
Predizer ==
    /\ pc = "predicao"
    /\ \E resposta \in Respostas :
          /\ classificador' = Some(resposta)
          /\ predicao_ml' = Some(predizer_fraude(resposta, Val(features)))
    /\ pc' = "resultado"
    /\ UNCHANGED <<extVars, dvVars, valVars, cacheVars, texto, dados, validacao, features, fusao,
                   fraudeAnalise, explicacao, excecao>>

\* tasks.py:66-73
ResultadoFinal ==
    /\ pc = "resultado"
    /\ fusao' = Some([is_fraudulento |->
                          is_fraudulento_final(Val(validacao), Val(predicao_ml)),
                      metodos |-> metodos_final(Val(validacao), Val(predicao_ml))])
    /\ pc' = "explicacao"
    /\ UNCHANGED <<extVars, dvVars, valVars, cacheVars, texto, classificador, dados, validacao,
                   features, predicao_ml, fraudeAnalise, explicacao, excecao>>

\* tasks.py:77-81; an exception leaves the try block for the handler
Explicar ==
    /\ pc = "explicacao"
    /\ LET e == gerar_explicacao_humanizada(Val(dados), Val(validacao),
                                            Val(predicao_ml), relogio)
       IN  IF e = None
           THEN /\ excecao' = Some("TypeError")
                /\ pc' = "except"
                /\ UNCHANGED explicacao
           ELSE /\ explicacao' = e
                /\ pc' = "salvar"
                /\ UNCHANGED excecao
    /\ UNCHANGED <<extVars, dvVars, valVars, cacheVars, texto, classificador, dados, validacao,
                   features, predicao_ml, fusao, fraudeAnalise>>

\* tasks.py:88-116
Salvar ==
    /\ pc = "salvar"
    /\ fraudeAnalise' =
           Some([isFraudulento |-> Val(fusao).is_fraudulento,
                 score |-> Val(predicao_ml).score_fraude,
                 confianca |-> Val(predicao_ml).confianca,
                 metodos |-> Val(fusao).metodos,
                 motivos |-> IF ~Val(validacao).valido
                             THEN Val(validacao).erros ELSE << >>,
                 explicacao |-> Val(explicacao)])
    /\ pc' = "completed"
    /\ UNCHANGED <<extVars, dvVars, valVars, cacheVars, texto, classificador, dados, validacao,
                   features, predicao_ml, fusao, explicacao, excecao>>

\* tasks.py:118-132: status failed, the exception is raised again
Falhar ==
    /\ pc = "except"
    /\ pc' = "failed"
    /\ UNCHANGED <<extVars, dvVars, valVars, cacheVars, texto, classificador, dados, validacao,
                   features, predicao_ml, fusao, fraudeAnalise, explicacao,
                   excecao>>

Next ==
    \/ Parser \/ Validacao \/ PrepararFeatures \/ Predizer
    \/ ResultadoFinal \/ Explicar \/ Salvar \/ Falhar

Spec == Init /\ [][Next]_vars

-----------------------------------------------------------------------------
(* Claims on processar_boleto                                              *)

CamposDoBundle == {"simples", "avancado", "razoes", "recomendacao", "gerado_em"}

\* C1: for every OCR text and every classifier answer the sequence
\* parse_dados_boleto -> validar_boleto_febraban -> preparar_features ->
\* predizer_fraude -> gerar_explicacao_humanizada raises no exception, and
\* once the explanation step is over there is a bundle with simples,
\* avancado, razoes, recomendacao and gerado_em.
C1_SempreBundle ==
    /\ excecao = None
    /\ pc \in {"salvar", "completed"} =>
           /\ explicacao /= None
           /\ DOMAIN Val(explicacao) = CamposDoBundle

\* C2: the fused is_fraudulento equals (NOT validation.valido) OR (predicted
\* class == 0), in the locals of step 5 and in the saved document.
C2_FusaoOu ==
    /\ fusao /= None =>
           Val(fusao).is_fraudulento
               = ((~Val(validacao).valido) \/ Val(classificador).classe = 0)
    /\ fraudeAnalise /= None =>
           Val(fraudeAnalise).isFraudulento
               = ((Val(validacao).erros /= << >>) \/ Val(classificador).classe = 0)

\* The saved verdict is clean: validation valid and predicted class 1.
C2_Witness ==
    /\ fraudeAnalise /= None
    /\ Val(validacao).valido
    /\ Val(classificador).classe = 1
    /\ ~Val(fraudeAnalise).isFraudulento

ElementosDe(s) == { s[i] : i \in 1..Len(s) }

\* C3: metodos holds 'validacao_febraban' iff validation.valido is false and
\* 'modelo_ml' iff the classifier's is_fraudulento is true, nothing else and
\* nothing twice; an invalid boleto the classifier accepts is fraudulent with
\* metodos == {'validacao_febraban'}; metodos is empty iff the fused verdict
\* is not fraudulent.
C3_MetodosExatos ==
    fusao /= None =>
        LET m == Val(fusao).metodos
            v == Val(validacao)
            p == Val(predicao_ml)
        IN  /\ ("validacao_febraban" \in ElementosDe(m)) <=> ~v.valido
            /\ ("modelo_ml" \in ElementosDe(m)) <=> p.is_fraudulento
            /\ ElementosDe(m) \subseteq {"validacao_febraban", "modelo_ml"}
            /\ Len(m) = Cardinality(ElementosDe(m))
            /\ (~v.valido /\ ~p.is_fraudulento) =>
                   /\ Val(fusao).is_fraudulento
                   /\ m = <<"validacao_febraban">>
            /\ (m = << >>) <=> ~Val(fusao).is_fraudulento

C3_Witness ==
    /\ fusao /= None
    /\ ~Val(validacao).valido
    /\ ~Val(predicao_ml).is_fraudulento
    /\ Val(fusao).metodos = <<"validacao_febraban">>

\* C4: the explanation is rendered from the fused verdict: when the fused
\* is_fraudulento is true the bundle says POSSIVELMENTE FALSO with nivel_risco
\* ALTO, MEDIO-ALTO or MEDIO, and when it is false nivel_risco is BAIXO,
\* BAIXO-MEDIO or INCERTO.
C4_ExplicacaoDoVereditoFundido ==
    explicacao /= None =>
        LET e == Val(explicacao)
        IN  IF Val(fusao).is_fraudulento
            THEN /\ e.simples.status = "POSSIVELMENTE FALSO"
                 /\ e.recomendacao.nivel_risco \in {"ALTO", "MEDIO-ALTO", "MEDIO"}
            ELSE e.recomendacao.nivel_risco \in {"BAIXO", "BAIXO-MEDIO", "INCERTO"}

\* s occurs in t
Ocorre(s, t) == \E i \in 1..(Len(t) - Len(s) + 1) : SubSeq(t, i, i + Len(s) - 1) = s

\* The text holds a right linha digitavel of bank 001, R$ 150,00 and a
\* vencimento 30 days after the clock's day; the classifier answers
\* (class 1, [0.05, 0.95]).
CenarioC5 ==
    /\ relogio.dia = Ordinal(2026, 12, 5) - 30
    /\ Ocorre(FormatarLinha(LinhaBoa), texto) \/ Ocorre(LinhaBoa, texto)
    /\ validar_linha_digitavel(LinhaBoa).valido
    /\ Slice(LinhaBoa, 0, 3) = <<"0", "0", "1">>
    /\ Ocorre(TextoValor150, texto)
    /\ Ocorre(StrftimeDMY(2026, 12, 5), texto)
    /\ classificador = Some([classe |-> 1, prob_falso |-> 50,
                             prob_verdadeiro |-> 950])

\* C5: in that scenario the bundle has nivel_risco BAIXO and razoes holds no
\* entry of gravidade critica or alta.
C5_CenarioAutentico ==
    (explicacao /= None /\ CenarioC5) =>
        LET e == Val(explicacao)
        IN  /\ e.recomendacao.nivel_risco = "BAIXO"
            /\ \A i \in 1..Len(e.razoes) :
                   e.razoes[i].gravidade \notin {"critica", "alta"}

-----------------------------------------------------------------------------
(* validar_cnpj called on CNPJ strings                                     *)

MaxSementeCnpj == 5

\* The first 12 digits: grown from a seed, one digit repeated, or CnpjBom's.
BasesCnpj ==
    { Chars([j \in 1..12 |-> Dig(s, j)]) : s \in 0..MaxSementeCnpj }
    \cup { Chars([j \in 1..12 |-> d]) : d \in 0..9 }
    \cup { Slice(CnpjBom, 0, 12) }

EntradasCnpj ==
    { [tipo |-> "cnpj", digitos |-> b \o Chars(<<a, u>>),
       texto |-> IF f THEN FormatarCnpj(b \o Chars(<<a, u>>))
                 ELSE b \o Chars(<<a, u>>)] :
        b \in BasesCnpj, a \in 0..9, u \in 0..9, f \in BOOLEAN }
    \cup
    { [tipo |-> "cnpj", digitos |-> Slice(b, 0, 11) \o Chars(<<a>>),
       texto |-> Slice(b, 0, 11) \o Chars(<<a>>)] : b \in BasesCnpj, a \in 0..9 }

InitCnpj ==
    entrada \in EntradasCnpj /\ saida = None /\ ValNulo /\ JobNulo /\ CacheNulo /\ ExtNulo

ValidarCnpj ==
    /\ entrada.tipo = "cnpj" /\ saida = None
    /\ saida' = Some(validar_cnpj(entrada.texto))
    /\ UNCHANGED <<extVars, entrada, valVars, jobVars, cacheVars>>

NextCnpj == ValidarCnpj

SpecCnpj == InitCnpj /\ [][NextCnpj]_vars

-----------------------------------------------------------------------------
(* Claims on validar_cnpj                                                  *)

\* The weighted modulo-11 rule as the specification words it: over the first
\* n digits the weights run 2, 3, ..., 9, 2, 3, ... from the right.
RECURSIVE SomaRegraCnpj(_, _, _)
SomaRegraCnpj(d, n, i) ==
    IF i > n THEN 0
    ELSE DigitVal(d[i]) * (((n - i) % 8) + 2) + SomaRegraCnpj(d, n, i + 1)

DVRegraCnpj(d, n) ==
    LET r == SomaRegraCnpj(d, n, 1) % 11 IN IF r < 2 THEN 0 ELSE 11 - r

\* Both stored check digits are the computed ones.
CnpjCorreto(d) ==
    /\ Len(d) = 14
    /\ DigitVal(d[13]) = DVRegraCnpj(d, 12)
    /\ DigitVal(d[14]) = DVRegraCnpj(d, 13)

TodosIguais(d) == \A i \in 1..Len(d) : d[i] = d[1]

\* C11 as stated: every 14-digit CNPJ whose digits 12 and 13 are the two
\* computed check digits validates with zero errors.
C11_CnpjCorretoValida ==
    (saida /= None /\ CnpjCorreto(entrada.digitos)) =>
        (Val(saida).valido /\ Val(saida).erros = << >>)

\* C11 amended: every 14-digit CNPJ whose digits are not all identical and
\* whose digits 12 and 13 are the two computed check digits validates with
\* zero errors.
C11_CnpjCorretoNaoRepetidoValida ==
    (saida /= None /\ CnpjCorreto(entrada.digitos)
       /\ ~TodosIguais(entrada.digitos)) =>
        (Val(saida).valido /\ Val(saida).erros = << >>)

\* A right CNPJ written with its punctuation has been validated.
C11_Witness ==
    /\ saida /= None
    /\ CnpjCorreto(entrada.digitos) /\ ~TodosIguais(entrada.digitos)
    /\ entrada.texto /= entrada.digitos
    /\ Val(saida).valido


\* d with the digit at position i (from 1) replaced by the digit n
ComDigito(d, i, n) == [d EXCEPT ![i] = Chars(<<n>>)[1]]

\* d is a CNPJ with both check digits right in which only the first check
\* digit (index 12) was changed
PrimeiroDVTrocado(d) ==
    /\ Len(d) = 14
    /\ DigitVal(d[13]) /= DVRegraCnpj(d, 12)
    /\ CnpjCorreto(ComDigito(d, 13, DVRegraCnpj(d, 12)))

\* d is a CNPJ with both check digits right in which only the second check
\* digit (index 13) was changed
SegundoDVTrocado(d) ==
    /\ Len(d) = 14
    /\ DigitVal(d[14]) /= DVRegraCnpj(d, 13)
    /\ CnpjCorreto(ComDigito(d, 14, DVRegraCnpj(d, 13)))

\* C12: changing only the first check digit of a right CNPJ makes validar_cnpj
\* report exactly one error, the first-check-digit error; changing only the
\* second one makes it report exactly one error, the second-check-digit error.
C12_UmErroPorDVTrocado ==
    saida /= None =>
        /\ PrimeiroDVTrocado(entrada.digitos) =>
               Val(saida).erros = <<MsgCnpjDV1>>
        /\ SegundoDVTrocado(entrada.digitos) =>
               Val(saida).erros = <<MsgCnpjDV2>>


\* C13: every 14-digit CNPJ whose digits are all identical is rejected with
\* valido false, whatever its check digits, and the rejection carries the
\* repeated-sequence error alone.
C13_SequenciaRepetidaRejeitada ==
    (saida /= None /\ Len(entrada.digitos) = 14 /\ TodosIguais(entrada.digitos)) =>
        /\ ~Val(saida).valido
        /\ Val(saida).erros = <<MsgCnpjRepetido>>

\* The repeated sequence whose check digits are right has been rejected.
C13_Witness ==
    /\ saida /= None
    /\ Len(entrada.digitos) = 14 /\ TodosIguais(entrada.digitos)
    /\ CnpjCorreto(entrada.digitos)
    /\ ~Val(saida).valido


-----------------------------------------------------------------------------
(* Claims C14 to C20                                                       *)

\* The only finding of the validation is the unknown-bank-code one.
SoBancoDesconhecido(v) ==
    /\ Len(v.erros) = 1
    /\ v.erros[1].p = MsgBancoDesconhecido(<< >>).p

\* C14: an unknown bank code is not itself fraud-determinative: when the only
\* validation finding is 'Codigo de banco desconhecido' the fused
\* is_fraudulento equals the classifier's is_fraudulento.
C14_BancoDesconhecidoNaoDetermina ==
    (fusao /= None /\ SoBancoDesconhecido(Val(validacao))) =>
        Val(fusao).is_fraudulento = Val(predicao_ml).is_fraudulento


\* C15: parse_dados_boleto never raises and a field for which nothing matches
\* is None; in particular, for a text in which no linha digitavel is found,
\* codigo_banco and banco_nome are both None.
C15_SemLinhaSemBanco ==
    (dados /= None /\ extrair_linha_digitavel(texto) = None) =>
        /\ Val(dados).linha_digitavel = None
        /\ Val(dados).codigo_banco = None
        /\ Val(dados).banco_nome = None


-----------------------------------------------------------------------------
(* ml/model.py: carregar_modelo called by the job threads of one worker    *)

\* Job threads the worker has started (worker.py:69-70); each one reaches
\* modelo = carregar_modelo() at tasks.py:62.
NumThreads == 3
Threads == 1..NumThreads

InitModelo ==
    /\ DVNulo /\ ValNulo /\ JobNulo /\ ExtNulo
    /\ _modelo_cache = None /\ cargas = 0 /\ atribuicoes = 0
    /\ pcT = [t \in Threads |-> "espera"]
    /\ carregado = [t \in Threads |-> None]
    /\ retorno = [t \in Threads |-> None]

\* worker.py:69-70, tasks.py:62: the thread enters carregar_modelo
Iniciar(t) ==
    /\ pcT[t] = "espera"
    /\ pcT' = [pcT EXCEPT ![t] = "verificar"]
    /\ UNCHANGED <<extVars, dvVars, valVars, jobVars, _modelo_cache, cargas, atribuicoes,
                   carregado, retorno>>

\* model.py:23-24: if _modelo_cache is not None: return _modelo_cache
VerificarCache(t) ==
    /\ pcT[t] = "verificar"
    /\ IF _modelo_cache /= None
       THEN /\ retorno' = [retorno EXCEPT ![t] = _modelo_cache]
            /\ pcT' = [pcT EXCEPT ![t] = "fim"]
       ELSE /\ pcT' = [pcT EXCEPT ![t] = "abrir"]
            /\ UNCHANGED retorno
    /\ UNCHANGED <<extVars, dvVars, valVars, jobVars, _modelo_cache, cargas, atribuicoes,
                   carregado>>

\* model.py:29-32: the file is there and is opened, or the exception is raised
AbrirArquivo(t) ==
    /\ pcT[t] = "abrir"
    /\ \E existe \in BOOLEAN :
          pcT' = [pcT EXCEPT ![t] = IF existe THEN "carregar" ELSE "erro"]
    /\ UNCHANGED <<extVars, dvVars, valVars, jobVars, _modelo_cache, cargas, atribuicoes,
                   carregado, retorno>>

\* model.py:33, right-hand side: pickle.load(f) builds a new object
Carregar(t) ==
    /\ pcT[t] = "carregar"
    /\ cargas' = cargas + 1
    /\ carregado' = [carregado EXCEPT ![t] = Some(cargas + 1)]
    /\ pcT' = [pcT EXCEPT ![t] = "atribuir"]
    /\ UNCHANGED <<extVars, dvVars, valVars, jobVars, _modelo_cache, atribuicoes, retorno>>

\* model.py:33, the store into the global
Atribuir(t) ==
    /\ pcT[t] = "atribuir"
    /\ _modelo_cache' = carregado[t]
    /\ atribuicoes' = atribuicoes + 1
    /\ pcT' = [pcT EXCEPT ![t] = "retornar"]
    /\ UNCHANGED <<extVars, dvVars, valVars, jobVars, cargas, carregado, retorno>>

\* model.py:36: return _modelo_cache
Retornar(t) ==
    /\ pcT[t] = "retornar"
    /\ retorno' = [retorno EXCEPT ![t] = _modelo_cache]
    /\ pcT' = [pcT EXCEPT ![t] = "fim"]
    /\ UNCHANGED <<extVars, dvVars, valVars, jobVars, _modelo_cache, cargas, atribuicoes,
                   carregado>>

NextModelo ==
    \E t \in Threads :
        \/ Iniciar(t) \/ VerificarCache(t) \/ AbrirArquivo(t)
        \/ Carregar(t) \/ Atribuir(t) \/ Retornar(t)

SpecModelo == InitModelo /\ [][NextModelo]_vars

\* C16: for every interleaving of job threads calling carregar_modelo the
\* model file is unpickled at most once, every caller receives the same
\* cached object and the cache is never assigned again after its first
\* assignment.
C16_CargaUnica ==
    /\ cargas <= 1
    /\ atribuicoes <= 1
    /\ \A t, u \in Threads :
           (retorno[t] /= None /\ retorno[u] /= None) => retorno[t] = retorno[u]


\* C17: score_fraude is P(class=0) * 100 rounded to the nearest integer and
\* lies in 0..100; confianca is max(P(class=0), P(class=1)).  Probabilities
\* are in thousandths, so the nearest integer to P * 100 is at most half a
\* percent, five thousandths, away.
C17_ScoreArredondado ==
    predicao_ml /= None =>
        LET r == Val(classificador)
            p == Val(predicao_ml)
        IN  /\ p.score_fraude \in 0..100
            /\ p.score_fraude * 10 - r.prob_falso <= 5
            /\ r.prob_falso - p.score_fraude * 10 <= 5
            /\ p.confianca >= r.prob_falso
            /\ p.confianca >= r.prob_verdadeiro
            /\ p.confianca \in {r.prob_falso, r.prob_verdadeiro}


\* The impact and the colour the specification fixes for each gravidade.
ImpactoCorFixos ==
    { <<"critica", 95, "danger">>, <<"alta", 80, "warning">>,
      <<"media", 60, "medium">>, <<"baixa", 30, "primary">> }

TrioDe(razao) == <<razao.gravidade, razao.impacto, razao.cor>>

\* C18 as stated: every entry of razoes carries the impact and the colour
\* fixed by its gravidade.
C18_ImpactoCorPorGravidade ==
    explicacao /= None =>
        \A i \in 1..Len(Val(explicacao).razoes) :
            TrioDe(Val(explicacao).razoes[i]) \in ImpactoCorFixos

\* C18 amended: every entry of razoes built from a validation error carries
\* the impact and the colour fixed by its gravidade; the classifier entries
\* are (alta, 85, danger) and (baixa, 15, success), the elevated-value entry
\* is (media, 60, warning) and the placeholder is (baixa, 30, primary).
C18_ImpactoCorPorCategoria ==
    explicacao /= None =>
        \A i \in 1..Len(Val(explicacao).razoes) :
            LET r == Val(explicacao).razoes[i]
            IN  CASE r.categoria = "validacao_tecnica" ->
                       TrioDe(r) \in ImpactoCorFixos
                  [] r.categoria = "machine_learning" ->
                       TrioDe(r) \in { <<"alta", 85, "danger">>,
                                       <<"baixa", 15, "success">> }
                  [] r.categoria = "valor" ->
                       TrioDe(r) = <<"media", 60, "warning">>
                  [] r.categoria = "geral" ->
                       TrioDe(r) = <<"baixa", 30, "primary">>
                  [] OTHER -> FALSE

\* An explanation holding a critica and a baixa validation entry and the
\* suspicious-pattern classifier entry.
C18_Witness ==
    /\ explicacao /= None
    /\ \E i, j, k \in 1..Len(Val(explicacao).razoes) :
          LET r == Val(explicacao).razoes
          IN  /\ r[i].categoria = "validacao_tecnica" /\ r[i].gravidade = "critica"
              /\ r[j].categoria = "validacao_tecnica" /\ r[j].gravidade = "baixa"
              /\ r[k].categoria = "machine_learning" /\ r[k].impacto = 85


\* valor > 10000 for the amount the parser extracted (an exact decimal)
ValorAcimaDe10000(v) == v.mant > 10000 * Pot10(v.casas)

\* C19: razoes holds one entry per validation error in erros order, then at
\* most one classifier entry (the suspicious-pattern one iff score_fraude >
\* 0.7, the apparently-normal one iff score_fraude < 0.3), then the
\* elevated-value entry iff valor > 10000; the placeholder is there iff there
\* is no other entry, so razoes is never empty and the placeholder never
\* stands beside another entry.
C19_OrdemDasRazoes ==
    explicacao /= None =>
        LET r == Val(explicacao).razoes
            erros == Val(validacao).erros
            n == Len(erros)
            score == Val(predicao_ml).score_fraude
            suspeito == score * 10 > 7
            normal == score * 10 < 3
            ml == IF suspeito \/ normal THEN 1 ELSE 0
            elevado == IF ValorAcimaDe10000(Val(Val(dados).valor)) THEN 1 ELSE 0
            generica == IF n + ml + elevado = 0 THEN 1 ELSE 0
        IN  /\ Len(r) = n + ml + elevado + generica
            /\ Len(r) >= 1
            /\ ~(suspeito /\ normal)
            /\ \A i \in 1..n :
                   /\ r[i].categoria = "validacao_tecnica"
                   /\ r[i].erro = Some(erros[i])
            /\ ml = 1 =>
                   /\ r[n + 1].categoria = "machine_learning"
                   /\ r[n + 1].titulo = IF suspeito
                                        THEN "Padrao Suspeito Identificado"
                                        ELSE "Padrao Aparentemente Normal"
            /\ elevado = 1 => r[n + ml + 1].categoria = "valor"
            /\ generica = 1 => r[1].categoria = "geral"

\* An explanation with validation entries, the classifier's entry and the
\* elevated-value entry after it.
C19_Witness ==
    /\ explicacao /= None
    /\ Len(Val(validacao).erros) >= 2
    /\ Len(Val(explicacao).razoes) = Len(Val(validacao).erros) + 2
    /\ Val(explicacao).razoes[Len(Val(validacao).erros) + 1].categoria
           = "machine_learning"
    /\ Val(explicacao).razoes[Len(Val(validacao).erros) + 2].categoria = "valor"


\* The confidence band of the specification: 1 for confianca >= 0.85, 2 for
\* 0.65 <= confianca < 0.85, 3 below.
BandaDe(confianca) ==
    IF confianca >= 850 THEN 1 ELSE IF confianca >= 650 THEN 2 ELSE 3

TiersFraude == <<"ALTO", "MEDIO-ALTO", "MEDIO">>
TiersAutentico == <<"BAIXO", "BAIXO-MEDIO", "INCERTO">>

\* C20: the recommendation is the tier of (is_fraudulento, confidence band):
\* ALTO, MEDIO-ALTO, MEDIO for a fraudulent prediction and BAIXO, BAIXO-MEDIO,
\* INCERTO for an authentic one, each with a non-empty proximos_passos.
C20_SeisTiers ==
    explicacao /= None =>
        LET r == Val(classificador)
            confianca == IF r.prob_falso >= r.prob_verdadeiro
                         THEN r.prob_falso ELSE r.prob_verdadeiro
            rec == Val(explicacao).recomendacao
        IN  /\ rec.nivel_risco =
                   IF r.classe = 0 THEN TiersFraude[BandaDe(confianca)]
                   ELSE TiersAutentico[BandaDe(confianca)]
            /\ rec.proximos_passos >= 1

\* A fraudulent prediction with confianca exactly 0.85 got ALTO.
C20_Witness ==
    /\ explicacao /= None
    /\ Val(predicao_ml).is_fraudulento
    /\ Val(predicao_ml).confianca = 850
    /\ Val(explicacao).recomendacao.nivel_risco = "ALTO"


-----------------------------------------------------------------------------
(* Anonymous access: api/main.py (analisar_boleto, test_ocr) and            *)
(* auth/routes.py (verificar_acesso_anonimo), for one client address.       *)
(*                                                                         *)
(* The handlers are coroutines: every `await db...` hands the event loop   *)
(* to the other requests, so each database operation is one step and the   *)
(* code between two awaits runs without interruption.  The limit code of   *)
(* test_ocr (main.py 367-396) is the limit code of analisar_boleto         *)
(* (main.py 103-134) with another message; the steps below carry the       *)
(* endpoint as a field.  A document keeps analises_hoje and the UTC day of *)
(* ultima_analise; days are numbered from 1.                               *)

NumPedidos == 3
MaxDia == 2

Pedidos == 1..NumPedidos
Endpoints == {"/api/analisar", "/api/test-ocr"}

\* db.acessos_anonimos.find_one({"ip_address": ip_address}): the first document
find_one(colecao) == IF colecao = << >> THEN None ELSE Some(Head(colecao))

\* update_one(filter, {"$inc": {"analises_hoje": 1},
\*                     "$set": {"ultima_analise": agora}}, upsert=True)
update_one_inc(colecao, agora) ==
    IF colecao = << >>
    THEN <<[analises_hoje |-> 1, ultima_analise |-> Some(agora)]>>
    ELSE [colecao EXCEPT ![1] = [analises_hoje |-> @.analises_hoje + 1,
                                 ultima_analise |-> Some(agora)]]

\* update_one(filter, {"$set": {"analises_hoje": 0}})
update_one_zera(colecao) ==
    IF colecao = << >> THEN colecao
    ELSE [colecao EXCEPT ![1].analises_hoje = 0]

\* The local analises_hoje of the limit check: the stored counter, or 0 when
\* ultima_analise lies on a day before hoje.
analises_hoje_local(acesso, hoje) ==
    IF acesso.ultima_analise /= None /\ Val(acesso.ultima_analise) < hoje
    THEN 0 ELSE acesso.analises_hoje

\* The limit check raises HTTP 403.
LimiteAtingido(acesso, hoje) ==
    acesso /= None /\ analises_hoje_local(Val(acesso), hoje) >= 2

PedidoNovo ==
    [pc |-> "inicio", endpoint |-> None, hoje |-> None, acesso |-> None,
     agora |-> None, status |-> None]

QuickNovo == [pc |-> "inicio", hoje |-> None, acesso |-> None, permitido |-> None]

InitAcesso ==
    /\ acessos_anonimos = << >>
    /\ utcnow = 1
    /\ pedidos = [r \in Pedidos |-> PedidoNovo]
    /\ quick = QuickNovo
    /\ DVNulo /\ ValNulo /\ JobNulo /\ CacheNulo /\ FilaNulo

\* hoje = datetime.utcnow().date(); acesso = await find_one(...)
LerAcesso(r) ==
    /\ pedidos[r].pc = "inicio"
    /\ \E e \in Endpoints :
         pedidos' = [pedidos EXCEPT ![r] = [@ EXCEPT !.pc = "verificar",
                                                     !.endpoint = Some(e),
                                                     !.hoje = Some(utcnow),
                                                     !.acesso = find_one(acessos_anonimos)]]
    /\ UNCHANGED <<acessos_anonimos, utcnow, quick, dvVars, valVars, jobVars, cacheVars, filaVars>>

\* if acesso: ... if analises_hoje >= 2: raise HTTPException(403); otherwise the
\* handler issues update_one with ultima_analise = datetime.utcnow()
VerificarLimite(r) ==
    /\ pedidos[r].pc = "verificar"
    /\ pedidos' = [pedidos EXCEPT ![r] =
            IF LimiteAtingido(@.acesso, Val(@.hoje))
            THEN [@ EXCEPT !.pc = "fim", !.status = Some(403)]
            ELSE [@ EXCEPT !.pc = "registrar", !.agora = Some(utcnow)]]
    /\ UNCHANGED <<acessos_anonimos, utcnow, quick, dvVars, valVars, jobVars, cacheVars, filaVars>>

\* await db.acessos_anonimos.update_one(..., upsert=True); the handler goes on
\* to the analysis
RegistrarAnalise(r) ==
    /\ pedidos[r].pc = "registrar"
    /\ acessos_anonimos' = update_one_inc(acessos_anonimos, Val(pedidos[r].agora))
    /\ pedidos' = [pedidos EXCEPT ![r] = [@ EXCEPT !.pc = "fim", !.status = Some(200)]]
    /\ UNCHANGED <<utcnow, quick, dvVars, valVars, jobVars, cacheVars, filaVars>>

\* /auth/quick-access: hoje = datetime.utcnow().date(); acesso = await find_one
QuickLer ==
    /\ quick.pc = "inicio"
    /\ quick' = [pc |-> "agir", hoje |-> Some(utcnow),
                 acesso |-> find_one(acessos_anonimos), permitido |-> None]
    /\ UNCHANGED <<acessos_anonimos, utcnow, pedidos, dvVars, valVars, jobVars, cacheVars, filaVars>>

\* /auth/quick-access after the read: insert the first document, reset the
\* counter on a new day, or only answer
QuickAgir ==
    /\ quick.pc = "agir"
    /\ IF quick.acesso = None
       THEN /\ acessos_anonimos' =
                 Append(acessos_anonimos, [analises_hoje |-> 0, ultima_analise |-> None])
            /\ quick' = [QuickNovo EXCEPT !.permitido = Some(TRUE)]
       ELSE LET acesso == Val(quick.acesso)
            IN  IF acesso.ultima_analise /= None
                   /\ Val(acesso.ultima_analise) < Val(quick.hoje)
                THEN /\ acessos_anonimos' = update_one_zera(acessos_anonimos)
                     /\ quick' = [QuickNovo EXCEPT !.permitido = Some(TRUE)]
                ELSE /\ UNCHANGED acessos_anonimos
                     /\ quick' = [QuickNovo EXCEPT
                                    !.permitido = Some(acesso.analises_hoje < 2)]
    /\ UNCHANGED <<utcnow, pedidos, dvVars, valVars, jobVars, cacheVars, filaVars>>

\* midnight UTC
ViraDia ==
    /\ utcnow < MaxDia
    /\ utcnow' = utcnow + 1
    /\ UNCHANGED <<acessos_anonimos, pedidos, quick, dvVars, valVars, jobVars, cacheVars, filaVars>>

NextAcesso ==
    \/ \E r \in Pedidos : LerAcesso(r)
    \/ \E r \in Pedidos : VerificarLimite(r)
    \/ \E r \in Pedidos : RegistrarAnalise(r)
    \/ QuickLer
    \/ QuickAgir
    \/ ViraDia

SpecAcesso == InitAcesso /\ [][NextAcesso]_vars

\* The requests that passed the limit check on day d (hoje of the request).
Passaram(d) ==
    {r \in Pedidos : /\ pedidos[r].pc \in {"registrar", "fim"}
                     /\ pedidos[r].status /= Some(403)
                     /\ pedidos[r].hoje = Some(d)}

\* C21: for every interleaving of the anonymous requests of one address to
\* /api/analisar and /api/test-ocr, at most 2 requests of one UTC day pass the
\* limit check.
C21_NoMaximoDoisPorDia ==
    pedidos /= None => \A d \in 1..MaxDia : Cardinality(Passaram(d)) <= 2

\* Some request of the address passed the limit check on a day before d.
UsouAntesDe(d) == \E e \in 1..(d - 1) : Passaram(e) /= {}

\* No request ran across midnight: its update carries the day of its read.
SemViradaNoMeio ==
    \A r \in Pedidos : pedidos[r].agora /= None => pedidos[r].agora = pedidos[r].hoje

\* C22: the quota renews daily: when the address used analyses on an earlier
\* UTC day, no request of a later day is answered 403 before 2 requests of that
\* later day have passed the limit check, whatever counter the earlier day left
\* and whether or not /auth/quick-access ran in between (requests that run
\* across midnight set aside).
C22_QuotaRenovaNoDia ==
    (pedidos /= None /\ SemViradaNoMeio) =>
        \A r \in Pedidos :
            (/\ pedidos[r].status = Some(403)
             /\ UsouAntesDe(Val(pedidos[r].hoje)))
            => Cardinality(Passaram(Val(pedidos[r].hoje))) >= 2

-----------------------------------------------------------------------------
(* _determinar_gravidade called on error messages                          *)

\* The errors the validator emits for a check-digit mismatch: of 47-digit
\* linhas, of 44-digit barcodes and of 14-digit CNPJs that are not one digit
\* repeated.
ErrosDeDV ==
    UNION { ElementosDe(validar_linha_digitavel(LinhaSemente(s, a, b, c)).erros) :
              s \in 0..MaxSemente, a \in 0..9, b \in 0..9, c \in 0..9 }
    \cup UNION { ElementosDe(validar_codigo_barras(BarrasSemente(s, a, u)).erros) :
                   s \in 0..MaxSemente, a \in 0..9, u \in 0..9 }
    \cup UNION { ElementosDe(validar_cnpj(e.texto).erros) :
                   e \in { x \in EntradasCnpj :
                             Len(x.digitos) = 14 /\ ~TodosIguais(x.digitos) } }

\* The other errors of the validator.
ErrosSemDV ==
    { MsgTamanhoLinha(46), MsgTamanhoBarras(43), MsgValorZero, MsgValorMaximo,
      MsgCnpjTamanho, MsgCnpjRepetido, MsgBancoDesconhecido(<<"9", "9", "9">>),
      MsgLinhaNaoEncontrada, MsgValorNaoEncontrado, MsgVencNaoEncontrado,
      MsgBancoNaoEncontrado }
    \cup UNION { ElementosDe(validar_vencimento(Val(v), h).erros) :
                   v \in VencimentosCampo \ {None}, h \in Relogios }

\* The keywords of the three rules, last rule first.
PalavrasChave ==
    << <<"incompleto">>, <<"formato">>, <<"codigo", "de", "barras">>,
       <<"digito", "verificador">>, <<"falha", "critica">>, <<"incorreto">>,
       <<"invalido">> >>

RECURSIVE Frase(_, _)
\* A message holding the keywords numbered in S, the later rules' first.
Frase(S, i) ==
    IF i > Len(PalavrasChave) THEN <<"no", "boleto">>
    ELSE (IF i \in S THEN <<"Com">> \o PalavrasChave[i] ELSE << >>)
         \o Frase(S, i + 1)

ErrosCompostos ==
    { Msg(<<"Erro">> \o Frase(S, 1), << >>) : S \in SUBSET (1..Len(PalavrasChave)) }

EntradasGravidade ==
    { [tipo |-> "erro", origem |-> "dv", texto |-> e] : e \in ErrosDeDV }
    \cup { [tipo |-> "erro", origem |-> "validador", texto |-> e] : e \in ErrosSemDV }
    \cup { [tipo |-> "erro", origem |-> "composto", texto |-> e] : e \in ErrosCompostos }

InitGravidade ==
    entrada \in EntradasGravidade /\ saida = None
    /\ ValNulo /\ JobNulo /\ CacheNulo /\ ExtNulo

DeterminarGravidade ==
    /\ entrada.tipo = "erro" /\ saida = None
    /\ saida' = Some(_determinar_gravidade(entrada.texto))
    /\ UNCHANGED <<extVars, entrada, valVars, jobVars, cacheVars>>

SpecGravidade == InitGravidade /\ [][DeterminarGravidade]_vars

\* erro.lower() holds one of the keywords
TemPalavra(erro, chaves) == \E c \in chaves : Contem(LowerMsg(erro), c)

PalavrasCritica == {<<"invalido">>, <<"incorreto">>, <<"falha", "critica">>}
PalavrasAlta == {<<"digito", "verificador">>, <<"codigo", "de", "barras">>}
PalavrasMedia == {<<"formato">>, <<"incompleto">>}

\* C23: the severity of an error is that of the first keyword rule its
\* lower-cased text matches (critica, then alta, then media, else baixa), and
\* every check-digit mismatch error of the validator (DV1, DV2, DV3, barcode
\* DV, CNPJ check digits) is rated critica.
C23_GravidadePelaPrimeiraRegra ==
    (saida /= None /\ entrada.tipo = "erro") =>
        LET erro == entrada.texto
            gravidade == Val(saida)
            c == TemPalavra(erro, PalavrasCritica)
            a == TemPalavra(erro, PalavrasAlta)
            m == TemPalavra(erro, PalavrasMedia)
        IN  /\ c => gravidade = "critica"
            /\ (~c /\ a) => gravidade = "alta"
            /\ (~c /\ ~a /\ m) => gravidade = "media"
            /\ (~c /\ ~a /\ ~m) => gravidade = "baixa"
            /\ entrada.origem = "dv" => gravidade = "critica"

\* The barcode DV error, which holds a keyword of the first and of the second
\* rule, has been rated critica.
C23_Witness ==
    /\ saida = Some("critica")
    /\ entrada.tipo = "erro" /\ entrada.origem = "dv"
    /\ TemPalavra(entrada.texto, PalavrasCritica)
    /\ TemPalavra(entrada.texto, PalavrasAlta)
    /\ entrada.texto.p[1] = "DV"

-----------------------------------------------------------------------------
(* Claims C24 to C30                                                       *)

\* Block k's stored check digit differs from the modulo-10 digit of its prefix.
BlocoDivergente(d, k) ==
    BlocosDaLinha(d)[k][2] /= DigitChars[DVLuhn(BlocosDaLinha(d)[k][1]) + 1]

\* The error the specification words for block k: DV<k> invalido with the
\* expected and the found digit.
ErroDoBloco(d, k) ==
    IF BlocoDivergente(d, k)
    THEN <<MsgDV(<<"DV1", "DV2", "DV3">>[k],
                 <<DigitChars[DVLuhn(BlocosDaLinha(d)[k][1]) + 1]>>,
                 <<BlocosDaLinha(d)[k][2]>>)>>
    ELSE << >>

\* C24: the three blocks of a 47-digit linha are checked independently: the
\* errors are exactly one DV<k> error per block whose stored check digit
\* differs from the computed one, in the order DV1, DV2, DV3; the digit at
\* index 32 and the block [33:47] add no error.
C24_BlocosIndependentes ==
    (saida /= None /\ entrada.tipo = "linha") =>
        LET d == entrada.digitos
            erros == Val(saida).erros
        IN  /\ erros = ErroDoBloco(d, 1) \o ErroDoBloco(d, 2) \o ErroDoBloco(d, 3)
            /\ Len(erros) = Cardinality({k \in 1..3 : BlocoDivergente(d, k)})

\* A validated linha whose first and third blocks mismatch and whose second
\* block is right: two errors, DV1 then DV3.
C24_Witness ==
    /\ saida /= None /\ entrada.tipo = "linha"
    /\ BlocoDivergente(entrada.digitos, 1)
    /\ ~BlocoDivergente(entrada.digitos, 2)
    /\ BlocoDivergente(entrada.digitos, 3)
    /\ Len(Val(saida).erros) = 2
    /\ Val(saida).erros[1].p[1] = "DV1"
    /\ Val(saida).erros[2].p[1] = "DV3"

\* ---- validar_vencimento called on date strings

AnosVencimento == {2020, 2021, 2026, 2028, 2029}

\* dd/mm/yyyy for every day number 1..31 of every month (some are no dates),
\* and strings of another shape.
EntradasVencimento ==
    { [tipo |-> "vencimento", y |-> y, m |-> m, d |-> d,
       texto |-> StrftimeDMY(y, m, d)] :
        y \in AnosVencimento, m \in 1..12, d \in 1..31 }
    \cup { [tipo |-> "vencimento", y |-> 0, m |-> 0, d |-> 0, texto |-> s] :
             s \in { << >>, <<"a", "m", "a", "n", "h", "a">>,
                     <<"0", "5", "/", "1", "1", "/", "2", "6">>,
                     <<"0", "0", "/", "1", "1", "/", "2", "0", "2", "6">>,
                     <<"0", "5", "/", "1", "3", "/", "2", "0", "2", "6">>,
                     <<"0", "5", "-", "1", "1", "-", "2", "0", "2", "6">> } }

\* datetime.now(): today or tomorrow, at midnight or later in the day
RelogiosVencimento ==
    { [dia |-> DiaHoje + k, fracao |-> f] : k \in 0..1, f \in BOOLEAN }

InitVencimento ==
    /\ entrada \in EntradasVencimento /\ saida = None
    /\ relogio \in RelogiosVencimento /\ campos = None /\ resultado = None
    /\ JobNulo /\ CacheNulo /\ ExtNulo

ValidarVencimento ==
    /\ entrada.tipo = "vencimento" /\ saida = None
    /\ saida' = Some(validar_vencimento(entrada.texto, relogio))
    /\ UNCHANGED <<extVars, entrada, valVars, jobVars, cacheVars>>

SpecVencimento == InitVencimento /\ [][ValidarVencimento]_vars

\* The entry is a date of the calendar.
DataDoCalendario(e) ==
    e.y >= 1 /\ e.m \in 1..12 /\ e.d \in 1..DiasNoMes(e.y, e.m)

\* Instants in half days: a date at 00:00, and now (12:00 stands for every
\* time of day after midnight).
MeioDiaDe(e) == 2 * Ordinal(e.y, e.m, e.d)
MeioDiaAgora == 2 * relogio.dia + (IF relogio.fracao THEN 1 ELSE 0)

ErroAntigo(e) == MsgVencAntigo(e.texto)
ErroDistante(e) == MsgVencDistante(e.texto)

\* C25 as stated: a parsable date is rejected iff it lies more than 5*365 days
\* before now or more than 2*365 days after now (elapsed time), with the error
\* of its side.
C25_JanelaEmTempoDecorrido ==
    (saida /= None /\ entrada.tipo = "vencimento" /\ DataDoCalendario(entrada)) =>
        LET antes == MeioDiaAgora - MeioDiaDe(entrada) > 2 * (5 * 365)
            depois == MeioDiaDe(entrada) - MeioDiaAgora > 2 * (2 * 365)
        IN  Val(saida).erros =
                (IF antes THEN <<ErroAntigo(entrada)>> ELSE << >>)
                \o (IF depois THEN <<ErroDistante(entrada)>> ELSE << >>)

\* C25: a parsable dd/mm/yyyy date is rejected iff the whole days from it to
\* now (the difference rounded down) exceed 5*365, or the whole days from now
\* to it exceed 2*365; inside the window there is no error, the two errors
\* never occur together, and a string that is no date yields exactly one
\* 'data de vencimento invalida' error.
C25_JanelaEmDiasInteiros ==
    (saida /= None /\ entrada.tipo = "vencimento") =>
        LET r == Val(saida)
            antes == (MeioDiaAgora - MeioDiaDe(entrada)) \div 2 > 5 * 365
            depois == (MeioDiaDe(entrada) - MeioDiaAgora) \div 2 > 2 * 365
        IN  /\ r.valido <=> r.erros = << >>
            /\ DataDoCalendario(entrada) =>
                 /\ r.erros = (IF antes THEN <<ErroAntigo(entrada)>> ELSE << >>)
                              \o (IF depois THEN <<ErroDistante(entrada)>> ELSE << >>)
                 /\ Len(r.erros) <= 1
            /\ ~DataDoCalendario(entrada) =>
                 /\ Len(r.erros) = 1
                 /\ SubSeq(r.erros[1].p, 1, 4) = <<"Data", "de", "vencimento", "invalida">>

\* Later in the day, the date 731 days ahead has been accepted: the difference
\* is 730 days and a fraction.
C25_Witness ==
    /\ saida /= None /\ entrada.tipo = "vencimento" /\ DataDoCalendario(entrada)
    /\ relogio.fracao
    /\ Ordinal(entrada.y, entrada.m, entrada.d) - relogio.dia = 2 * 365 + 1
    /\ Val(saida).valido

\* ---- preparar_features and predizer_fraude called on field sets

\* agencia strings with the number int(agencia.split('-')[0]) gives, 0 standing
\* for a ValueError
AgenciasFeatures ==
    { <<<<"1", "2", "3", "4">>, 1234>>, <<<<"1", "2", "3", "4", "-", "5">>, 1234>>,
      <<<<"0", "0", "7", "-", "X">>, 7>>, <<<<"a", "b", "c">>, 0>>,
      <<<<"-", "5">>, 0>>, <<<< >>, 0>>, <<<<"1", "2", "a", "4", "-", "1">>, 0>> }

LinhasFeatures ==
    { None, Some(<< >>), Some(<<"3", "4">>), Some(<<"3", "4", "1">>),
      Some(<<"3", "4", "1", "9">>), Some(<<"3", "4", ".", "1", " ", "9">>),
      Some(Slice(LinhaBoa, 0, 46)), Some(LinhaBoa), Some(FormatarLinha(LinhaBoa)),
      Some(FormatarLinha(LinhaBancoDesconhecido)) }

DadosFeatures ==
    { CamposDe(l, None, v, None, None, k) : l \in LinhasFeatures,
          v \in {None, Some(Decimal(15000, 2))},
          k \in {None, Some(<<"0", "0", "1">>), Some(<<"3", "4", "1">>)} }
    \cup { [CamposDe(l, None, None, None, None, None) EXCEPT !.agencia = Some(a[1])] :
             l \in {None, Some(FormatarLinha(LinhaBoa))}, a \in AgenciasFeatures }

InitFeatures ==
    /\ DVNulo /\ ValNulo /\ CacheNulo /\ ExtNulo
    /\ pc = "features"
    /\ dados \in { Some(d) : d \in DadosFeatures }
    /\ texto = None /\ classificador = None /\ validacao = None
    /\ features = None /\ predicao_ml = None /\ fusao = None
    /\ fraudeAnalise = None /\ explicacao = None /\ excecao = None

SpecFeatures == InitFeatures /\ [][PrepararFeatures \/ Predizer]_vars

\* The number of the agencia string in the table above.
AgenciaDaTabela(s) == (CHOOSE a \in AgenciasFeatures : a[1] = s)[2]

\* C26: preparar_features yields banco = codigoBanco = the bank code (0 if
\* null), agencia (0 if null or unparseable, else the number before the
\* hyphen), valor, linha_codBanco (first 3 linha digits), linha_moeda (digit at
\* index 3) and linha_valor (digits [37:47]), each linha feature 0 when the
\* linha is absent or too short for it; predizer_fraude hands the classifier
\* the seven values in exactly that order.
C26_SeteFeaturesEmOrdem ==
    (features /= None /\ dados /= None) =>
        LET d == Val(dados)
            f == Val(features)
            digitos == IF d.linha_digitavel = None THEN << >>
                       ELSE SoDigitos(Val(d.linha_digitavel))
            banco == IF d.codigo_banco = None THEN 0 ELSE IntDe(Val(d.codigo_banco))
        IN  /\ DOMAIN f = {"banco", "codigoBanco", "agencia", "valor",
                           "linha_codBanco", "linha_moeda", "linha_valor"}
            /\ f.banco = banco /\ f.codigoBanco = banco
            /\ f.agencia = IF d.agencia = None THEN 0
                           ELSE AgenciaDaTabela(Val(d.agencia))
            /\ f.valor = IF d.valor = None THEN Decimal(0, 1) ELSE Val(d.valor)
            /\ f.linha_codBanco =
                 IF Len(digitos) < 3 THEN 0
                 ELSE 100 * DigitVal(digitos[1]) + 10 * DigitVal(digitos[2])
                      + DigitVal(digitos[3])
            /\ f.linha_moeda = IF Len(digitos) < 4 THEN 0 ELSE DigitVal(digitos[4])
            /\ f.linha_valor = IF Len(digitos) < 47 THEN 0
                               ELSE IntDe(SubSeq(digitos, 38, 47))
            /\ predicao_ml /= None =>
                 Val(predicao_ml).vetor =
                     <<f.banco, f.codigoBanco, f.agencia, f.valor,
                       f.linha_codBanco, f.linha_moeda, f.linha_valor>>

\* The classifier has been handed the vector of a full linha with an amount:
\* bank 1, amount 150.00, linha bank 1, currency 9, linha amount 15000.
C26_Witness ==
    /\ predicao_ml /= None /\ features /= None
    /\ Val(predicao_ml).vetor = <<1, 1, 0, Decimal(15000, 2), 1, 9, 15000>>

\* C27: the classifier score is read on one scale throughout: the 'Padrao
\* Suspeito Identificado' reason is in razoes only when P(class=0) > 0.7, the
\* 'Padrao Aparentemente Normal' reason is in razoes whenever P(class=0) < 0.3,
\* and avancado.analise_tecnica.score_fraude is a percentage in 0..100.
C27_ScoreNumaEscala ==
    explicacao /= None =>
        LET r == Val(classificador)
            e == Val(explicacao)
        IN  /\ RazaoPadraoSuspeito \in ElementosDe(e.razoes) => r.prob_falso > 700
            /\ r.prob_falso < 300 => RazaoPadraoNormal \in ElementosDe(e.razoes)
            /\ e.avancado.analise_tecnica.score_fraude \in 0..100

\* A one-character string holding a digit 1..9.
DigitoDeUmANove(dv) == Len(dv) = 1 /\ IsDigit(dv[1]) /\ DigitVal(dv[1]) \in 1..9

\* C28: calcular_dv_modulo11 returns a digit 1..9 for every digit sequence (the
\* whole input and, for a barcode, every prefix of it and the 43 digits around
\* the check digit) and never 0; a 44-digit codigo de barras whose index-4
\* digit is 0 is reported invalid with the barcode DV error.
C28_Modulo11NuncaZero ==
    (saida /= None /\ entrada.tipo \in {"linha", "barras"}) =>
        /\ DigitoDeUmANove(calcular_dv_modulo11(entrada.digitos))
        /\ entrada.tipo = "barras" =>
             /\ \A n \in 0..44 :
                  DigitoDeUmANove(calcular_dv_modulo11(Slice(entrada.digitos, 0, n)))
             /\ DigitoDeUmANove(calcular_dv_modulo11(SemDV(entrada.digitos)))
             /\ entrada.digitos[5] = "0" =>
                  /\ ~Val(saida).valido
                  /\ Val(saida).erros =
                       <<MsgDVBarras(calcular_dv_modulo11(SemDV(entrada.digitos)),
                                     <<"0">>)>>

\* A barcode with the digit 0 at index 4 whose modulo-11 remainder is 0 or 1
\* (11 - remainder is 11 or 10) has been reported invalid, the expected digit
\* being 1.
C28_Witness ==
    /\ saida /= None /\ entrada.tipo = "barras"
    /\ entrada.digitos[5] = "0"
    /\ DVMod11Bruto(SemDV(entrada.digitos)) \in {10, 11}
    /\ ~Val(saida).valido
    /\ Val(saida).erros[1].a = << <<"1">>, <<"0">> >>

-----------------------------------------------------------------------------
(* The job queue: analisar_boleto (api/main.py) pushes, SimpleWorker.run    *)
(* (worker/worker.py) pops and starts one thread per job, processar_boleto  *)
(* (worker/tasks.py) runs in the thread.  What the pipeline computes is the *)
(* subject of Spec above; here a run of it either finishes or raises.  Each *)
(* update_one takes effect at its call.                                     *)

NumJobs == 3
NumWorkers == 2

Jobs == 1..NumJobs
Workers == 1..NumWorkers

\* A failure record that keeps the status it finds.
documento_falho_SemStatus(doc, erro) == [doc EXCEPT !.error = Some(erro)]

\* {'$set': {'status': 'failed', 'error': str(e), 'failedAt': ...}}
documento_falho(doc, erro) == [doc EXCEPT !.status = "failed", !.error = Some(erro)]

InitWorker ==
    /\ fila = << >>
    /\ analises = [j \in Jobs |-> None]
    /\ laco = [w \in Workers |-> None]
    /\ threads = [j \in Jobs |-> [pc |-> "fora", tomadas |-> 0]]
    /\ DVNulo /\ ValNulo /\ JobNulo /\ CacheNulo /\ ApiNulo

\* analisar_boleto, steps 5 and 6: insert the document with status
\* 'processing', then rpush the job
Enfileirar(j) ==
    /\ analises[j] = None
    /\ analises' = [analises EXCEPT ![j] = Some([status |-> "processing", error |-> None])]
    /\ fila' = Append(fila, j)
    /\ UNCHANGED <<laco, threads, dvVars, valVars, jobVars, cacheVars, apiVars>>

\* result = self.redis_conn.blpop(self.queue_name, timeout=5), with a result
Blpop(w) ==
    /\ laco[w] = None /\ fila /= << >>
    /\ laco' = [laco EXCEPT ![w] = Some(Head(fila))]
    /\ fila' = Tail(fila)
    /\ UNCHANGED <<analises, threads, dvVars, valVars, jobVars, cacheVars, apiVars>>

\* thread = Thread(target=self.processar_job, args=(job_data,)); thread.start()
IniciarThread(w) ==
    /\ laco[w] /= None
    /\ threads' = [threads EXCEPT ![Val(laco[w])] =
                      [pc |-> "inicio", tomadas |-> @.tomadas + 1]]
    /\ laco' = [laco EXCEPT ![w] = None]
    /\ UNCHANGED <<fila, analises, dvVars, valVars, jobVars, cacheVars, apiVars>>

\* processar_boleto: update_one({'_id': analise_id}, {'$set': {'status': 'processing'}})
MarcarProcessing(j) ==
    /\ threads[j].pc = "inicio"
    /\ analises' = [analises EXCEPT ![j] = Some([Val(@) EXCEPT !.status = "processing"])]
    /\ threads' = [threads EXCEPT ![j].pc = "pipeline"]
    /\ UNCHANGED <<fila, laco, dvVars, valVars, jobVars, cacheVars, apiVars>>

\* processar_boleto, steps 1 to 6: the pipeline finishes or raises
ExecutarPipeline(j) ==
    /\ threads[j].pc = "pipeline"
    /\ \E levantou \in BOOLEAN :
         threads' = [threads EXCEPT ![j].pc = IF levantou THEN "except" ELSE "salvar"]
    /\ UNCHANGED <<fila, analises, laco, dvVars, valVars, jobVars, cacheVars, apiVars>>

\* processar_boleto: update_one(... 'status': 'completed' ...) and return
SalvarResultado(j) ==
    /\ threads[j].pc = "salvar"
    /\ analises' = [analises EXCEPT ![j] = Some([Val(@) EXCEPT !.status = "completed"])]
    /\ threads' = [threads EXCEPT ![j].pc = "fim"]
    /\ UNCHANGED <<fila, laco, dvVars, valVars, jobVars, cacheVars, apiVars>>

\* processar_boleto's except: update_one(... 'status': 'failed', 'error': str(e))
\* and raise; processar_job catches and logs, and the thread ends
SalvarErro(j) ==
    /\ threads[j].pc = "except"
    /\ analises' = [analises EXCEPT ![j] = Some(documento_falho(Val(@), "str(e)"))]
    /\ threads' = [threads EXCEPT ![j].pc = "fim"]
    /\ UNCHANGED <<fila, laco, dvVars, valVars, jobVars, cacheVars, apiVars>>

PassoDoJob(j) ==
    MarcarProcessing(j) \/ ExecutarPipeline(j) \/ SalvarResultado(j) \/ SalvarErro(j)

NextWorker ==
    \/ \E j \in Jobs : Enfileirar(j)
    \/ \E w \in Workers : Blpop(w)
    \/ \E w \in Workers : IniciarThread(w)
    \/ \E j \in Jobs : MarcarProcessing(j)
    \/ \E j \in Jobs : ExecutarPipeline(j)
    \/ \E j \in Jobs : SalvarResultado(j)
    \/ \E j \in Jobs : SalvarErro(j)

SpecWorker == InitWorker /\ [][NextWorker]_vars

\* The run loop keeps polling and a started thread keeps running.
SpecWorkerJusto ==
    /\ SpecWorker
    /\ \A w \in Workers : WF_vars(Blpop(w)) /\ WF_vars(IniciarThread(w))
    /\ \A j \in Jobs : WF_vars(PassoDoJob(j))

Terminal(j) ==
    analises[j] /= None /\ Val(analises[j]).status \in {"completed", "failed"}

\* No job is taken twice; a finished thread left exactly one terminal status,
\* 'failed' with the error recorded and 'completed' without.
CicloSeguro ==
    \A j \in Jobs :
        /\ threads[j].tomadas <= 1
        /\ Terminal(j) => threads[j].pc = "fim"
        /\ threads[j].pc = "fim" =>
             /\ Terminal(j)
             /\ Val(analises[j]).status = "failed" <=> Val(analises[j]).error /= None

\* A step keeps a 'completed' status, and changes no document but that of the
\* job whose thread took the step (or the one being inserted).
PassoIsolado ==
    \A j \in Jobs :
        /\ (analises[j] /= None /\ Val(analises[j]).status = "completed")
               => analises'[j] = analises[j]
        /\ analises'[j] /= analises[j] =>
               /\ analises[j] = None \/ threads'[j].pc /= threads[j].pc
               /\ \A k \in Jobs \ {j} : analises'[k] = analises[k]

-----------------------------------------------------------------------------
(* api/main.py, test_ocr: the endpoint's own fusion (step 6)               *)

\* resultado_final of test_ocr; motivos is None when the key is not set.
test_ocr_resultado_final(v, p) ==
    [isFraudulento |-> (v.valido = FALSE) \/ p.is_fraudulento,
     score |-> p.score_fraude,
     confianca |-> p.confianca,
     metodos |-> (IF ~v.valido THEN <<"validacao_febraban">> ELSE << >>)
                 \o (IF p.is_fraudulento THEN <<"modelo_ml">> ELSE << >>),
     motivos |-> IF ~v.valido THEN Some(v.erros) ELSE None]

\* C30: the fusion of the worker job and the fusion of /api/test-ocr give, for
\* the same validation result and classifier output, the same isFraudulento,
\* score, confianca, metodos (same order) and motivos, motivos being
\* validation.erros when invalid and the empty list when valid.
C30_FusoesEquivalentes ==
    fraudeAnalise /= None =>
        LET job == Val(fraudeAnalise)
            api == test_ocr_resultado_final(Val(validacao), Val(predicao_ml))
        IN  /\ api.isFraudulento = job.isFraudulento
            /\ api.score = job.score
            /\ api.confianca = job.confianca
            /\ api.metodos = job.metodos
            /\ api.motivos = Some(job.motivos)
            /\ job.motivos = IF Val(validacao).valido THEN << >>
                             ELSE Val(validacao).erros
=============================================================================
